---------------------------- MODULE Spec2Model ----------------------------
(***************************************************************************)
(* Copilot-LMAPI: the model pool and selector (ModelDiscoveryService), the *)
(* HTTP front (CopilotServer.handleRequest), the chat-completion pipeline  *)
(* (RequestHandler.handleChatCompletions) and the streaming translator     *)
(* (Converter.extractStreamContent).                                       *)
(***************************************************************************)
EXTENDS Integers, Sequences, FiniteSets, TLC

VARIABLES
    modelPool,      \* ModelDiscoveryService.modelPool: the four tiers
    modelCache,     \* ModelDiscoveryService.modelCache (the ids it holds a model under)
    pass,           \* per caller: its discoverAllModels() call in progress (its locals)
    selected,       \* what the last selectOptimalModel() call returned (call:
                    \* 0 before any call, then 1 and 2 in turn)
    crit,           \* the criteria of the call under test (SpecSelect)
    maxConcurrentRequests,  \* CopilotServer.config.maxConcurrentRequests
    isRunning,      \* CopilotServer.state.isRunning
    isShuttingDown, \* CopilotServer.isShuttingDown
    activeRequests, \* CopilotServer.activeRequests (the request ids it holds)
    activeConnections,      \* CopilotServer.state.activeConnections
    pc,             \* per request: where its handler is suspended
    route,          \* per request: what handleRequest did with it
    stages,         \* per request: the pipeline stages passed, in order
    res,            \* per request: the http.ServerResponse
    ctx,            \* per request: the EnhancedRequestContext and its inputs
    sends,          \* per request: calls of vsCodeModel.sendRequest
    sentTo,         \* per request: the models sendRequest was called on
    fail,           \* per request: failures met, before or after the head
    strm,           \* per request: the streaming translator's state
    toolRegistry,   \* FunctionCallService.toolRegistry
    toolCall,       \* the call of executeToolCall in progress and its outcome
    fileInfo,       \* the call of fileInfoHandler under test and what it did
    calc,           \* the call of calculatorHandler under test and its outcome
    completion,     \* the call of Converter.createCompletionResponse under test
    serverModelPool,        \* CopilotServer.modelDiscovery.modelPool
    refresh,        \* the call of CopilotServer.handleModelRefresh in progress
    requestOptions  \* the tools the pipeline last prepared for the provider

poolVars == <<modelPool, modelCache, pass, selected, crit>>

serverVars == <<maxConcurrentRequests, isRunning, isShuttingDown, activeRequests,
                activeConnections>>

requestVars == <<pc, route, stages, res, ctx, sends, sentTo, fail, strm>>

refreshVars == <<serverModelPool, refresh, requestOptions>>

handlerVars == <<fileInfo, calc, completion, serverModelPool, refresh, requestOptions>>

toolVars == <<toolRegistry, toolCall, fileInfo, calc, completion, serverModelPool,
              refresh, requestOptions>>

vars == <<modelPool, modelCache, pass, selected, crit, maxConcurrentRequests, isRunning,
          isShuttingDown, activeRequests, activeConnections, pc, route, stages,
          res, ctx, sends, sentTo, fail, strm, toolRegistry, toolCall, fileInfo, calc,
          completion, serverModelPool, refresh, requestOptions>>

(***************************************************************************)
(* Bounds and input domains                                                *)
(***************************************************************************)
\* Longest list of models the provider enumerates in one discovery pass.
MaxModels == 2

\* Largest pool a selection is checked on (SpecSelect).
MaxPool == 2

\* Request slots: requests that arrive in one run of the server.
MaxReqs == 3

\* Largest configured concurrency cap.
MaxCap == 2

\* Most text fragments a provider stream yields.
MaxFragments == 2

\* Model identifiers the provider may expose.
ModelIds == {"gpt-4o", "claude-3", "gpt-4", "o1"}

\* The identifiers the discovery passes of SpecPool enumerate.
PoolIds == {"gpt-4o", "gpt-4", "o1"}

\* The provider's enumeration order is its own business: a fixed rank per id,
\* listed ascending or descending.
IdRank(id) ==
    CASE id = "gpt-4o" -> 1 [] id = "claude-3" -> 2 [] id = "gpt-4" -> 3 [] OTHER -> 4

\* Values of LanguageModelChat.maxInputTokens.
TokenValues == {4000, 128000}

\* Date.now() differences measured while probing (milliseconds).
ResponseTimes == {0, 7}
PoolResponseTimes == {0}

\* null / undefined, for a value held as a sequence of at most one element.
None == <<>>

(***************************************************************************)
(* Capability prober                                                       *)
(***************************************************************************)
\* String.prototype.includes on the identifiers of ModelIds (lower-cased).
Includes(id, pat) ==
    \/ id = pat
    \/ id = "gpt-4o" /\ pat = "gpt-4"

testVisionCapability(id) ==
    \E vm \in {"gpt-4o", "gpt-4-turbo", "claude-3", "gemini"} : Includes(id, vm)

testToolCapability(id) ==
    \E tm \in {"gpt-4", "gpt-3.5", "claude-3", "gemini"} : Includes(id, tm)

\* A provider handle (vscode.LanguageModelChat): identity and limits.
Handles(ids) == [id : ids, maxInputTokens : TokenValues]

\* inferAdvancedCapabilities: maxOutputTokens, when it is not set (0 here),
\* becomes Math.min(maxInputTokens * 0.5, 4096), and contextWindow becomes
\* maxInputTokens.  maxOutputTokens is held in tenths of a token, so that
\* the half of an odd number is an integer here.
inferAdvancedCapabilities_fixedOutput(capabilities) ==
    [capabilities EXCEPT !.maxOutputTokens = 40960,
                         !.contextWindow = capabilities.maxInputTokens]

inferAdvancedCapabilities(capabilities) ==
    [capabilities EXCEPT
       !.maxOutputTokens = IF @ # 0 THEN @
                           ELSE IF capabilities.maxInputTokens * 5 < 40960
                           THEN capabilities.maxInputTokens * 5
                           ELSE 40960,
       !.contextWindow = capabilities.maxInputTokens]

\* analyzeModelCapabilities; rt is the measured response time.  The object
\* literal sets no maxOutputTokens, and successRate is assigned nowhere in
\* the service, so the record has no such field (it reads as undefined).
analyzeModelCapabilities(h, rt) ==
  inferAdvancedCapabilities(
    [ id                      |-> h.id,
      maxInputTokens          |-> h.maxInputTokens,
      maxOutputTokens         |-> 0,
      contextWindow           |-> h.maxInputTokens,
      supportsVision          |-> testVisionCapability(h.id),
      supportsTools           |-> testToolCapability(h.id),
      supportsFunctionCalling |-> testToolCapability(h.id),
      supportsStreaming       |-> TRUE,
      supportsMultimodal      |-> testVisionCapability(h.id),
      isHealthy               |-> TRUE,
      responseTime            |-> rt ])

(***************************************************************************)
(* Ranking                                                                 *)
(***************************************************************************)
\* model.successRate || dflt, in thousandths (successRate is in [0,1]).
successRateOr(m, dflt) ==
    IF "successRate" \in DOMAIN m /\ m.successRate # 0 THEN m.successRate ELSE dflt

\* calculateCapabilityScore, times 1000 to stay in the integers.
calculateCapabilityScore(m) ==
      m.maxInputTokens
    + (IF m.supportsVision THEN 50000 ELSE 0)
    + (IF m.supportsTools THEN 30000 ELSE 0)
    + (IF m.supportsMultimodal THEN 20000 ELSE 0)
    + successRateOr(m, 500) * 100

\* A comparator whose 'tokens' case subtracts the wrong way round.
SortKey_tokensAscending(m, sortBy) ==
    CASE sortBy = "performance" -> m.responseTime
      [] sortBy = "tokens"      -> m.maxInputTokens
      [] sortBy = "health"      -> 0 - successRateOr(m, 0)
      [] OTHER                  -> 0 - calculateCapabilityScore(m)

\* The comparator of candidateModels.sort as a key: a sorts before b iff
\* SortKey(a) < SortKey(b); equal keys compare equal.
SortKey(m, sortBy) ==
    CASE sortBy = "performance" -> m.responseTime
      [] sortBy = "tokens"      -> 0 - m.maxInputTokens
      [] sortBy = "health"      -> 0 - successRateOr(m, 0)
      [] OTHER                  -> 0 - calculateCapabilityScore(m)

\* Array.prototype.sort is stable: x goes after every element it does not
\* strictly precede.
RECURSIVE InsertStable(_, _, _)
InsertStable(x, s, sortBy) ==
    IF s = <<>> THEN <<x>>
    ELSE IF SortKey(x, sortBy) < SortKey(Head(s), sortBy)
         THEN <<x>> \o s
         ELSE <<Head(s)>> \o InsertStable(x, Tail(s), sortBy)

RECURSIVE SortFrom(_, _, _)
SortFrom(s, acc, sortBy) ==
    IF s = <<>> THEN acc
    ELSE SortFrom(Tail(s), InsertStable(Head(s), acc, sortBy), sortBy)

ArraySort(s, sortBy) == SortFrom(s, <<>>, sortBy)

(***************************************************************************)
(* Model pool manager                                                      *)
(***************************************************************************)
EmptyPool == [primary |-> <<>>, secondary |-> <<>>, fallback |-> <<>>, unhealthy |-> <<>>]

\* The keys of the model cache after the one pass that built a pool with no
\* probe failing: the ids of the pooled models.
CacheOf(pool) ==
    { (pool.primary \o pool.secondary \o pool.fallback \o pool.unhealthy)[i].id :
        i \in 1..(Len(pool.primary) + Len(pool.secondary) + Len(pool.fallback)
                    + Len(pool.unhealthy)) }

\* Mutation of TierOf: the secondary rule is tried before the primary one.
TierOf_secondaryFirst(m) ==
    IF ~m.isHealthy THEN "unhealthy"
    ELSE IF m.supportsTools \/ m.maxInputTokens > 64000 THEN "secondary"
    ELSE IF m.supportsVision /\ m.supportsTools THEN "primary"
    ELSE "fallback"

\* The tier updateModelPool pushes a model to.
TierOf(m) ==
    IF ~m.isHealthy THEN "unhealthy"
    ELSE IF m.supportsVision /\ m.supportsTools THEN "primary"
    ELSE IF m.supportsTools \/ m.maxInputTokens > 64000 THEN "secondary"
    ELSE "fallback"

\* updateModelPool: reset, push each model to its tier in list order, then
\* sort primary, secondary and fallback by descending capability score
\* (unhealthy is left in push order).
updateModelPool(models) ==
    [ primary   |-> ArraySort(SelectSeq(models, LAMBDA m : TierOf(m) = "primary"), "capabilities"),
      secondary |-> ArraySort(SelectSeq(models, LAMBDA m : TierOf(m) = "secondary"), "capabilities"),
      fallback  |-> ArraySort(SelectSeq(models, LAMBDA m : TierOf(m) = "fallback"), "capabilities"),
      unhealthy |-> SelectSeq(models, LAMBDA m : TierOf(m) = "unhealthy") ]

(***************************************************************************)
(* Model selector                                                          *)
(***************************************************************************)
\* A filter that forgets the health check.
PassesFilter_ignoresHealth(m, c) ==
    /\ \A capability \in c.requiredCapabilities :
          capability \in DOMAIN m /\ m[capability] = TRUE
    /\ ~(c.minContextTokens # 0 /\ m.maxInputTokens < c.minContextTokens)
    /\ ~(c.requiresVision /\ ~m.supportsVision)
    /\ ~(c.requiresTools /\ ~m.supportsTools)
    /\ m.id \notin c.excludeModels

\* The filter callback of selectOptimalModel.  An absent (undefined)
\* criterion is {} (a list) or FALSE (a flag); minContextTokens 0 is falsy like undefined.
PassesFilter(m, c) ==
    /\ m.isHealthy
    /\ \A capability \in c.requiredCapabilities :
          capability \in DOMAIN m /\ m[capability] = TRUE
    /\ ~(c.minContextTokens # 0 /\ m.maxInputTokens < c.minContextTokens)
    /\ ~(c.requiresVision /\ ~m.supportsVision)
    /\ ~(c.requiresTools /\ ~m.supportsTools)
    /\ m.id \notin c.excludeModels

\* A selector that also draws on the fallback tier.
AvailableModels_withFallback(pool) == pool.primary \o pool.secondary \o pool.fallback

\* The models selection starts from.
AvailableModels(pool) == pool.primary \o pool.secondary

\* Mutation of CandidateModels: the preference narrows even to nothing.
CandidateModels_hardPreference(pool, c) ==
    LET filtered  == SelectSeq(AvailableModels(pool), LAMBDA m : PassesFilter(m, c))
        preferred == SelectSeq(filtered, LAMBDA m : m.id \in c.preferredModels)
    IN  IF c.preferredModels # {} THEN preferred ELSE filtered

\* candidateModels before the sort: the filtered models, narrowed to the
\* preferred ids when at least one of them is preferred.
CandidateModels(pool, c) ==
    LET filtered  == SelectSeq(AvailableModels(pool), LAMBDA m : PassesFilter(m, c))
        preferred == SelectSeq(filtered, LAMBDA m : m.id \in c.preferredModels)
    IN  IF c.preferredModels # {} /\ preferred # <<>> THEN preferred ELSE filtered

\* selectOptimalModel(criteria) on the pool: the model returned, or None.
selectOptimalModel(pool, c) ==
    IF AvailableModels(pool) = <<>> THEN None
    ELSE IF CandidateModels(pool, c) = <<>> THEN None
    ELSE <<Head(ArraySort(CandidateModels(pool, c), c.sortBy))>>

(***************************************************************************)
(* Inputs of the pool manager and the selector                             *)
(***************************************************************************)
\* What vscode.lm.selectChatModels() may return: at most n handles with
\* distinct ids, in the provider's order or its reverse.
ProviderLists(ids, n) ==
    { l \in UNION { [1..k -> Handles(ids)] : k \in 0..n } :
        \/ \A i, j \in 1..Len(l) : i < j => IdRank(l[i].id) < IdRank(l[j].id)
        \/ \A i, j \in 1..Len(l) : i < j => IdRank(l[i].id) > IdRank(l[j].id) }

SortKeys == {"performance", "tokens", "health", "capabilities", "undefined"}

Criteria(caps, minTokens, vision, tools, excluded, preferredIds, sortBy) ==
    [ requiredCapabilities |-> caps,
      minContextTokens     |-> minTokens,
      requiresVision       |-> vision,
      requiresTools        |-> tools,
      excludeModels        |-> excluded,
      preferredModels      |-> preferredIds,
      sortBy               |-> sortBy ]

\* The criteria handleChatCompletions builds (sortBy 'capabilities', no
\* excluded ids), over the estimates and names a request may carry.
RequestCriteria ==
    { Criteria(caps, minTokens, vision, tools, {}, preferredIds, "capabilities") :
        caps \in {{}, {"supportsStreaming"}},
        minTokens \in {0, 4001},
        vision \in BOOLEAN, tools \in BOOLEAN,
        preferredIds \in {{}, {"gpt-4"}} }

\* Criteria that vary the filter: required capability flags (as
\* Converter.createEnhancedContext names them, and a key no model has),
\* minimum context, vision, tools, excluded ids.
FilterCriteria ==
    { Criteria(caps, minTokens, vision, tools, excluded, {}, "capabilities") :
        caps \in { {}, {"supportsVision", "supportsStreaming"}, {"supportsTools"},
                   {"supportsAudio"} },
        minTokens \in {0, 4000, 4001, 200000},
        vision \in BOOLEAN, tools \in BOOLEAN,
        excluded \in {{}, {"gpt-4o"}} }

\* Criteria that vary the preference and the sort key.
RankCriteria ==
    { Criteria({}, minTokens, FALSE, tools, excluded, preferredIds, sortBy) :
        minTokens \in {0, 4001},
        tools \in BOOLEAN,
        excluded \in {{}, {"gpt-4o"}},
        preferredIds \in {{}, {"claude-3"}, {"o1", "gpt-4"}, {"gemini"}},
        sortBy \in SortKeys }

AllCriteria == FilterCriteria \cup RankCriteria

NoCriteria == Criteria({}, 0, FALSE, FALSE, {}, {}, "undefined")

(***************************************************************************)
(* Discovery, health checks and selection                                  *)
(***************************************************************************)
\* No pass of a caller is under way.  newest is history, not state of the
\* program: while a pass probes it tells whether the enumeration of that
\* pass is the last one that resolved.
IdlePass ==
    [pc |-> "idle", allModels |-> <<>>, next |-> 0, discoveredModels |-> <<>>,
     newest |-> FALSE]

\* The callers of discoverAllModels whose passes may overlap: the refresh
\* timer and RequestHandler.initialize (or a manual refresh).
Passes == {"timer", "initialize"}

NoPass == [p \in Passes |-> IdlePass]

\* discoverAllModels() is called by p and awaits
\* vscode.lm.selectChatModels().
discoverAllModels_call(p) ==
    /\ pass[p].pc = "idle"
    /\ pass' = [pass EXCEPT ![p].pc = "enumerating"]
    /\ UNCHANGED <<modelPool, modelCache, selected, crit, serverVars, requestVars, toolVars>>

\* The enumeration fails: the pass throws and the pool is left as it is.
discoverAllModels_enumerationFails(p) ==
    /\ pass[p].pc = "enumerating"
    /\ pass' = [pass EXCEPT ![p] = IdlePass]
    /\ UNCHANGED <<modelPool, modelCache, selected, crit, serverVars, requestVars, toolVars>>

\* The enumeration resolves with allModels.  With no model the loop body
\* never runs and updateModelPool([]) follows at once.
discoverAllModels_enumerated(p, allModels) ==
    /\ pass[p].pc = "enumerating"
    /\ IF allModels = <<>>
       THEN /\ modelPool' = updateModelPool(<<>>)
            /\ pass' = [q \in Passes |->
                          IF q = p THEN IdlePass ELSE [pass[q] EXCEPT !.newest = FALSE]]
       ELSE /\ pass' = [q \in Passes |->
                          IF q = p
                          THEN [pc |-> "probing", allModels |-> allModels, next |-> 1,
                                discoveredModels |-> <<>>, newest |-> TRUE]
                          ELSE [pass[q] EXCEPT !.newest = FALSE]]
            /\ UNCHANGED modelPool
    /\ UNCHANGED <<modelCache, selected, crit, serverVars, requestVars, toolVars>>

\* Mutation of PoolAfterProbe: the pool is rebuilt after every probe.
PoolAfterProbe_publishesEach(pool, discovered, last) == updateModelPool(discovered)

\* The pool after one iteration of the probing loop: updateModelPool is
\* called after the loop only, on the whole list.
PoolAfterProbe(pool, discovered, last) ==
    IF last THEN updateModelPool(discovered) ELSE pool

\* One iteration of the probing loop of p: the probe of allModels[next]
\* settles (ok: its capabilities are pushed and cached under the id;
\* otherwise it is logged and skipped); after the last one updateModelPool
\* replaces the pool.
discoverAllModels_probe(p, ok, rt) ==
    /\ pass[p].pc = "probing"
    /\ LET h          == pass[p].allModels[pass[p].next]
           discovered == IF ok
                         THEN Append(pass[p].discoveredModels, analyzeModelCapabilities(h, rt))
                         ELSE pass[p].discoveredModels
           last       == pass[p].next = Len(pass[p].allModels)
       IN  /\ modelPool' = PoolAfterProbe(modelPool, discovered, last)
           /\ modelCache' = IF ok THEN modelCache \cup {h.id} ELSE modelCache
           /\ pass' = [pass EXCEPT ![p] =
                         IF last THEN IdlePass
                         ELSE [@ EXCEPT !.next = @ + 1, !.discoveredModels = discovered]]
    /\ UNCHANGED <<selected, crit, serverVars, requestVars, toolVars>>

\* performHealthChecks: every model of primary, secondary and fallback gets
\* isHealthy := (its handle reports maxInputTokens > 0), read live as
\* healthy[id]; no model changes tier.
SetHealth_dropsUnhealthy(tier, healthy) ==
    SelectSeq([i \in 1..Len(tier) |-> [tier[i] EXCEPT !.isHealthy = healthy[tier[i].id]]],
              LAMBDA m : m.isHealthy)

SetHealth(tier, healthy) ==
    [i \in 1..Len(tier) |-> [tier[i] EXCEPT !.isHealthy = healthy[tier[i].id]]]

performHealthChecks(healthy) ==
    /\ modelPool' = [modelPool EXCEPT !.primary   = SetHealth(@, healthy),
                                      !.secondary = SetHealth(@, healthy),
                                      !.fallback  = SetHealth(@, healthy)]
    /\ UNCHANGED <<modelCache, pass, selected, crit, serverVars, requestVars, toolVars>>

\* selectOptimalModel(c) is called on the current pool.
SelectOptimalModel(c) ==
    /\ selected' = [call |-> IF selected.call = 1 THEN 2 ELSE 1,
                    model |-> selectOptimalModel(modelPool, c)]
    /\ UNCHANGED <<modelPool, modelCache, pass, crit, serverVars, requestVars, toolVars>>

(***************************************************************************)
(* The HTTP front: CopilotServer.handleRequest and what surrounds it.      *)
(***************************************************************************)
Reqs == 1..MaxReqs

HTTP_STATUS ==
    [OK |-> 200, BAD_REQUEST |-> 400, UNAUTHORIZED |-> 401, FORBIDDEN |-> 403,
     NOT_FOUND |-> 404, METHOD_NOT_ALLOWED |-> 405, REQUEST_TIMEOUT |-> 408,
     TOO_MANY_REQUESTS |-> 429, INTERNAL_SERVER_ERROR |-> 500,
     BAD_GATEWAY |-> 502, SERVICE_UNAVAILABLE |-> 503]

NOTIFICATIONS == [NO_COPILOT_ACCESS |-> "GitHub Copilot access required"]

ERROR_CODES ==
    [INVALID_REQUEST |-> "invalid_request_error",
     AUTHENTICATION_ERROR |-> "authentication_error",
     PERMISSION_ERROR |-> "permission_error",
     NOT_FOUND_ERROR |-> "not_found_error",
     API_ERROR |-> "api_error"]

Methods == {"OPTIONS", "POST", "GET"}
\* req.url: the three kinds of path routeEnhancedRequest tells apart, and a
\* request target that new URL() rejects.
InvalidUrl == "//"

Paths == {"/v1/chat/completions", "/v1/models", "/nowhere", InvalidUrl}

\* error.message of an error body: its text and the numbers interpolated in it.
Message(text, numbers) == [text |-> text, numbers |-> numbers]

NoMessage == Message("none", <<>>)

\* A fresh http.ServerResponse.  heads counts the response heads written;
\* message, errorType and param are error.message, error.type and error.param
\* of an error body; cors tells whether the CORS_HEADERS are set on it.
NoRes ==
    [headersSent |-> FALSE, statusCode |-> 200, body |-> "none",
     message |-> NoMessage, errorType |-> "none", param |-> "none",
     ended |-> FALSE, heads |-> 0, cors |-> FALSE]

\* CopilotServer.addCORSHeaders: res.setHeader for each of CORS_HEADERS.
addCORSHeaders(resp) == [resp EXCEPT !.cors = TRUE]

\* res.writeHead(statusCode) followed by res.end(body) on a response whose
\* head is not yet written (Node throws ERR_HTTP_HEADERS_SENT otherwise; the
\* callers below test headersSent to take that branch).
writeHeadAndEnd(resp, statusCode, body, errorType) ==
    [headersSent |-> TRUE, statusCode |-> statusCode, body |-> body,
     message |-> NoMessage, errorType |-> errorType, param |-> "none",
     ended |-> TRUE, heads |-> resp.heads + 1, cors |-> resp.cors]

\* CopilotServer.sendError
sendError(resp, statusCode) ==
    IF resp.headersSent
    THEN resp
    ELSE writeHeadAndEnd(resp, statusCode, "error", "enhanced_server_error")

\* Mutation of sendErrorResponse: the guard on headersSent is missing.
sendErrorResponse_unguarded(resp, statusCode, message, type, param) ==
    [writeHeadAndEnd(resp, statusCode, "error", type)
       EXCEPT !.message = message, !.param = param]

\* RequestHandler.sendErrorResponse
sendErrorResponse(resp, statusCode, message, type, param) ==
    IF resp.headersSent
    THEN resp
    ELSE [writeHeadAndEnd(resp, statusCode, "error", type)
            EXCEPT !.message = message, !.param = param]

\* Mutation of checkEnhancedRateLimit: the limit is never reached.
checkEnhancedRateLimit_unlimited(tracked, cap) == TRUE

\* CopilotServer.checkEnhancedRateLimit, on the table as it is at the call
\* (the arriving request is already in it).
checkEnhancedRateLimit(tracked, cap) == Cardinality(tracked) < cap

\* Per-request records before the request has arrived.
NoFail == [before |-> FALSE, after |-> FALSE, raised |-> "none"]

\* JSON values of a request body: an absent field, null, a number (held in
\* tenths, so that 0.5 and 2.1 are integers here) and a value of another type.
Undefined == [type |-> "undefined", tenths |-> 0]
Null == [type |-> "null", tenths |-> 0]
Num(tenths) == [type |-> "number", tenths |-> tenths]
NotANumber == [type |-> "string", tenths |-> 0]

NoBody ==
    [kind |-> "none", model |-> "auto-select", stream |-> FALSE,
     messages |-> [type |-> "undefined", items |-> <<>>],
     functions |-> FALSE, tools |-> FALSE,
     temperature |-> Undefined, max_tokens |-> Undefined, n |-> Undefined,
     top_p |-> Undefined, stop |-> [type |-> "undefined", length |-> 0, strings |-> TRUE],
     presence_penalty |-> Undefined, frequency_penalty |-> Undefined]

NoCtx ==
    [body |-> NoBody, isStream |-> FALSE, hasImages |-> FALSE,
     hasFunctions |-> FALSE, requiredCapabilities |-> {},
     estimatedTokens |-> 0, selectedModel |-> None, hasAccess |-> "unchecked"]


NoStream == [isFirst |-> TRUE, out |-> <<>>, frags |-> <<>>, ended |-> "no"]

\* A failure met by request r is recorded with whether the head was already
\* written when it happened.
Failed(f, resp) ==
    IF resp.headersSent THEN [f EXCEPT !.after = TRUE]
                        ELSE [f EXCEPT !.before = TRUE]

\* No request has arrived and the server is not listening; loadConfig read
\* one of the given caps.
ServerIdle(caps) ==
    /\ maxConcurrentRequests \in caps
    /\ isRunning = FALSE
    /\ isShuttingDown = FALSE
    /\ activeRequests = {}
    /\ activeConnections = 0
    /\ pc = [r \in Reqs |-> "idle"]
    /\ route = [r \in Reqs |-> "none"]
    /\ stages = [r \in Reqs |-> <<>>]
    /\ res = [r \in Reqs |-> NoRes]
    /\ ctx = [r \in Reqs |-> NoCtx]
    /\ sends = [r \in Reqs |-> 0]
    /\ sentTo = [r \in Reqs |-> <<>>]
    /\ fail = [r \in Reqs |-> NoFail]
    /\ strm = [r \in Reqs |-> NoStream]

\* CopilotServer.start: the listen callback.
start ==
    /\ ~isRunning
    /\ isRunning' = TRUE
    /\ UNCHANGED <<poolVars, toolVars, maxConcurrentRequests, isShuttingDown,
                   activeRequests, activeConnections, requestVars>>

\* CopilotServer.onConfigurationChanged: loadConfig reads a new cap.
onConfigurationChanged(cap) ==
    /\ maxConcurrentRequests' = cap
    /\ UNCHANGED <<poolVars, toolVars, isRunning, isShuttingDown, activeRequests,
                   activeConnections, requestVars>>

\* What routeEnhancedRequest does with a method and a path before any await.
routeEnhancedRequest(method, path) ==
    CASE path = "/v1/chat/completions" ->
            IF method = "POST" THEN "chat" ELSE "405"
      [] path = "/v1/models" ->
            IF method = "GET" THEN "models" ELSE "405"
      [] OTHER -> "404"

\* Mutation of Finally: the request is untracked but the connection count
\* is left as it was.
Finally_staleConnections(r, tracked) ==
    /\ activeRequests' = tracked \ {r}
    /\ activeConnections' = Cardinality(tracked)

\* The finally block of handleRequest.
Finally(r, tracked) ==
    /\ activeRequests' = tracked \ {r}
    /\ activeConnections' = Cardinality(tracked \ {r})

\* CopilotServer.handleRequest, from the arrival of request r to its first
\* suspension (the body read of a chat completion) or to its return.
handleRequest(r, method, path) ==
    /\ isRunning
    /\ pc[r] = "idle"
    /\ \A q \in Reqs : q < r => pc[q] # "idle"
    /\ UNCHANGED <<poolVars, toolVars, maxConcurrentRequests, isRunning, isShuttingDown,
                   ctx, sends, sentTo, strm>>
    /\ IF isShuttingDown
       THEN /\ res' = [res EXCEPT ![r] = sendError(@, HTTP_STATUS.SERVICE_UNAVAILABLE)]
            /\ fail' = [fail EXCEPT ![r] = Failed(@, res[r])]
            /\ route' = [route EXCEPT ![r] = "shutdown"]
            /\ pc' = [pc EXCEPT ![r] = "done"]
            /\ UNCHANGED <<activeRequests, activeConnections, stages>>
       ELSE LET tracked == activeRequests \cup {r}
            IN  /\ IF path = InvalidUrl
                   THEN \* new URL() throws before addCORSHeaders: the catch
                        /\ res' = [res EXCEPT ![r] =
                                     sendError(@, HTTP_STATUS.INTERNAL_SERVER_ERROR)]
                        /\ fail' = [fail EXCEPT ![r] = Failed(@, res[r])]
                        /\ route' = [route EXCEPT ![r] = "error"]
                        /\ pc' = [pc EXCEPT ![r] = "done"]
                        /\ Finally(r, tracked)
                        /\ UNCHANGED stages
                   ELSE IF method = "OPTIONS"
                   THEN /\ res' = [res EXCEPT ![r] =
                                     writeHeadAndEnd(addCORSHeaders(@), HTTP_STATUS.OK,
                                                     "none", "none")]
                        /\ route' = [route EXCEPT ![r] = "preflight"]
                        /\ pc' = [pc EXCEPT ![r] = "done"]
                        /\ Finally(r, tracked)
                        /\ UNCHANGED <<fail, stages>>
                   ELSE IF ~checkEnhancedRateLimit(tracked, maxConcurrentRequests)
                   THEN /\ res' = [res EXCEPT ![r] =
                                     sendError(addCORSHeaders(@),
                                               HTTP_STATUS.TOO_MANY_REQUESTS)]
                        /\ fail' = [fail EXCEPT ![r] = Failed(@, res[r])]
                        /\ route' = [route EXCEPT ![r] = "limited"]
                        /\ pc' = [pc EXCEPT ![r] = "done"]
                        /\ Finally(r, tracked)
                        /\ UNCHANGED stages
                   ELSE LET to == routeEnhancedRequest(method, path)
                        IN  /\ route' = [route EXCEPT ![r] = to]
                            /\ CASE to = "chat" ->
                                      /\ pc' = [pc EXCEPT ![r] = "body"]
                                      /\ stages' = [stages EXCEPT ![r] = <<"Received">>]
                                      /\ activeRequests' = tracked
                                      /\ activeConnections' = Cardinality(tracked)
                                      /\ res' = [res EXCEPT ![r] = addCORSHeaders(@)]
                                      /\ UNCHANGED fail
                                 [] to = "models" ->
                                      /\ res' = [res EXCEPT ![r] =
                                                   writeHeadAndEnd(addCORSHeaders(@),
                                                                   HTTP_STATUS.OK, "json", "none")]
                                      /\ pc' = [pc EXCEPT ![r] = "done"]
                                      /\ Finally(r, tracked)
                                      /\ UNCHANGED <<fail, stages>>
                                 [] OTHER ->
                                      /\ res' = [res EXCEPT ![r] =
                                                   sendError(addCORSHeaders(@),
                                                             IF to = "405"
                                                                THEN HTTP_STATUS.METHOD_NOT_ALLOWED
                                                                ELSE HTTP_STATUS.NOT_FOUND)]
                                      /\ fail' = [fail EXCEPT ![r] = Failed(@, res[r])]
                                      /\ pc' = [pc EXCEPT ![r] = "done"]
                                      /\ Finally(r, tracked)
                                      /\ UNCHANGED stages

\* CopilotServer.handleRequestTimeout: the timer armed by handleRequest fires
\* while the handler of r is suspended.
handleRequestTimeout(r) ==
    /\ pc[r] \notin {"idle", "done"}
    /\ res' = [res EXCEPT ![r] = IF ~@.headersSent
                                  THEN sendError(@, HTTP_STATUS.REQUEST_TIMEOUT)
                                  ELSE @]
    /\ fail' = [fail EXCEPT ![r] = Failed(@, res[r])]
    /\ activeRequests' = activeRequests \ {r}
    /\ UNCHANGED <<poolVars, toolVars, maxConcurrentRequests, isRunning, isShuttingDown,
                   activeConnections, pc, route, stages, ctx, sends, sentTo, strm>>

\* CopilotServer.closeActiveRequests on the table it finds.
closeActiveRequests(tracked) ==
    [r \in Reqs |-> IF r \in tracked /\ ~res[r].headersSent
                    THEN sendError(res[r], HTTP_STATUS.SERVICE_UNAVAILABLE)
                    ELSE res[r]]

\* CopilotServer.stop up to the call of server.close.
stop ==
    /\ isRunning
    /\ isShuttingDown' = TRUE
    /\ res' = closeActiveRequests(activeRequests)
    /\ fail' = [r \in Reqs |-> IF r \in activeRequests
                               THEN Failed(fail[r], res[r]) ELSE fail[r]]
    /\ activeRequests' = {}
    /\ UNCHANGED <<poolVars, toolVars, maxConcurrentRequests, isRunning,
                   activeConnections, pc, route, stages, ctx, sends, sentTo, strm>>

\* The callback of server.close in stop.
stop_closed ==
    /\ isShuttingDown
    /\ isRunning' = FALSE
    /\ isShuttingDown' = FALSE
    /\ UNCHANGED <<poolVars, toolVars, maxConcurrentRequests, activeRequests,
                   activeConnections, requestVars>>

(***************************************************************************)
(* The request validator: Validator.validateChatCompletionRequest.         *)
(* A JSON value is held as a record naming its type.                       *)
(***************************************************************************)
LIMITS == [MAX_MESSAGE_LENGTH |-> 1000000, MAX_MESSAGES_PER_REQUEST |-> 100]

\* value === undefined || value === null
IsAbsent(value) == value.type \in {"undefined", "null"}

\* Number.isInteger on a number held in tenths.
IsInteger(value) == value.type = "number" /\ value.tenths % 10 = 0

\* The outcome of a validation: passed, or the ValidationError thrown (its
\* message, its code and its param, with the message and part indices that
\* are interpolated in the param).
Valid ==
    [ok |-> TRUE, message |-> "none", code |-> "none", param |-> "none",
     index |-> 0, part |-> 0]

ValidationError(message, param, index, part) ==
    [ok |-> FALSE, message |-> message, code |-> ERROR_CODES.INVALID_REQUEST,
     param |-> param, index |-> index, part |-> part]

\* The first error thrown by a loop over checks 1..Len(checks), if any.
FirstThrown(checks) ==
    LET thrown == {i \in DOMAIN checks : ~checks[i].ok}
    IN  IF thrown = {} THEN Valid
        ELSE checks[CHOOSE i \in thrown : \A j \in thrown : i <= j]

\* An image URL is held as its scheme and its extension (lower-cased, as the
\* patterns are case-insensitive but for the data URI).
ImageExtensions == {"jpeg", "jpg", "png", "gif", "webp"}

validateImageUrl(url, messageIndex, partIndex) ==
    IF /\ url.scheme \in {"data:image/", "http://", "https://", "file://", "/", "./"}
       /\ url.extension \in ImageExtensions
    THEN Valid
    ELSE ValidationError("Invalid image URL format",
                          "messages.i.content.j.image_url.url", messageIndex, partIndex)

\* The body of the loop of validateMultimodalContent on part i (from 0).
validateContentPart(part, messageIndex, i) ==
    IF part.type = "not-object"
    THEN ValidationError("Content part must be an object",
                          "messages.i.content.j", messageIndex, i)
    ELSE IF part.type = "text"
    THEN IF part.text = 0
         THEN ValidationError("Text content part must have a text field",
                               "messages.i.content.j.text", messageIndex, i)
         ELSE Valid
    ELSE IF part.type = "image_url"
    THEN IF part.url.scheme = "no-image_url"
         THEN ValidationError("Image content part must have an image_url object",
                               "messages.i.content.j.image_url", messageIndex, i)
         ELSE IF part.url.scheme = "no-url"
         THEN ValidationError("Image URL is required",
                               "messages.i.content.j.image_url.url", messageIndex, i)
         ELSE validateImageUrl(part.url, messageIndex, i)
    ELSE ValidationError("Unknown content type",
                          "messages.i.content.j.type", messageIndex, i)

\* Mutation of validateMultimodalContent: the images are not counted.
validateMultimodalContent_uncounted(content, messageIndex) ==
    IF Len(content) = 0
    THEN ValidationError("Multimodal content array cannot be empty",
                          "messages.i.content", messageIndex, 0)
    ELSE FirstThrown([i \in DOMAIN content |->
                        validateContentPart(content[i], messageIndex, i - 1)])

validateMultimodalContent(content, messageIndex) ==
    IF Len(content) = 0
    THEN ValidationError("Multimodal content array cannot be empty",
                          "messages.i.content", messageIndex, 0)
    ELSE LET thrown == FirstThrown([i \in DOMAIN content |->
                          validateContentPart(content[i], messageIndex, i - 1)])
             imageCount == Cardinality({i \in DOMAIN content :
                                          content[i].type = "image_url"})
         IN  IF ~thrown.ok THEN thrown
             ELSE IF imageCount > 10
             THEN ValidationError("Too many images in message",
                                   "messages.i.content", messageIndex, 0)
             ELSE Valid

validateEnhancedMessage(message, index) ==
    IF message.type # "object"
    THEN ValidationError("Message must be an object", "messages.i", index, 0)
    ELSE IF message.role \notin {"system", "user", "assistant"}
    THEN ValidationError("Invalid role", "messages.i.role", index, 0)
    ELSE IF message.content.type = "string"
    THEN IF message.content.length = 0
         THEN ValidationError("Message content cannot be empty",
                               "messages.i.content", index, 0)
         ELSE IF message.content.length > LIMITS.MAX_MESSAGE_LENGTH
         THEN ValidationError("Message content is too long",
                               "messages.i.content", index, 0)
         ELSE Valid
    ELSE IF message.content.type = "array"
    THEN validateMultimodalContent(message.content.parts, index)
    ELSE ValidationError("Message content must be a string or array",
                          "messages.i.content", index, 0)

validateEnhancedMessages(messages) ==
    IF messages.type # "array"
    THEN ValidationError("Messages must be an array", "messages", 0, 0)
    ELSE IF Len(messages.items) = 0
    THEN ValidationError("At least one message is required", "messages", 0, 0)
    ELSE IF Len(messages.items) > LIMITS.MAX_MESSAGES_PER_REQUEST
    THEN ValidationError("Too many messages", "messages", 0, 0)
    ELSE FirstThrown([i \in DOMAIN messages.items |->
                        validateEnhancedMessage(messages.items[i], i - 1)])

\* validateDynamicModel: the model is a string, or "" when the field is
\* absent (any falsy value); an unknown model is only logged.
validateDynamicModel(model) == IF model = "" THEN "auto-select" ELSE model

validateTemperature(temperature) ==
    IF IsAbsent(temperature) THEN Valid
    ELSE IF temperature.type # "number"
    THEN ValidationError("Temperature must be a number", "temperature", 0, 0)
    ELSE IF temperature.tenths < 0 \/ temperature.tenths > 20
    THEN ValidationError("Temperature must be between 0 and 2", "temperature", 0, 0)
    ELSE Valid

\* modelLimit of validateMaxTokens, in tenths of a token.
modelLimit(selectedModel) ==
    IF selectedModel.maxOutputTokens # 0
    THEN selectedModel.maxOutputTokens
    ELSE selectedModel.maxInputTokens * 5

\* validateMaxTokens; selectedModel is the model found under the requested
\* id among the models handed to the validator, or None.
validateMaxTokens(maxTokens, selectedModel) ==
    IF IsAbsent(maxTokens) THEN Valid
    ELSE IF ~IsInteger(maxTokens)
    THEN ValidationError("max_tokens must be an integer", "max_tokens", 0, 0)
    ELSE IF maxTokens.tenths < 10
    THEN ValidationError("max_tokens must be at least 1", "max_tokens", 0, 0)
    ELSE IF selectedModel # None /\ maxTokens.tenths > modelLimit(selectedModel[1])
    THEN ValidationError("max_tokens cannot exceed the model limit", "max_tokens", 0, 0)
    ELSE Valid

validateN(n) ==
    IF IsAbsent(n) THEN Valid
    ELSE IF ~IsInteger(n)
    THEN ValidationError("n must be an integer", "n", 0, 0)
    ELSE IF n.tenths < 10 \/ n.tenths > 100
    THEN ValidationError("n must be between 1 and 10", "n", 0, 0)
    ELSE Valid

validateTopP(topP) ==
    IF IsAbsent(topP) THEN Valid
    ELSE IF topP.type # "number"
    THEN ValidationError("top_p must be a number", "top_p", 0, 0)
    ELSE IF topP.tenths < 0 \/ topP.tenths > 10
    THEN ValidationError("top_p must be between 0 and 1", "top_p", 0, 0)
    ELSE Valid

\* validateStop; an array is held as its length and whether all of its
\* elements are strings.
validateStop(stopValue) ==
    IF stopValue.type \in {"undefined", "null", "string"} THEN Valid
    ELSE IF stopValue.type = "array"
    THEN IF stopValue.length > 4
         THEN ValidationError("stop array cannot have more than 4 elements", "stop", 0, 0)
         ELSE IF ~stopValue.strings
         THEN ValidationError("All stop array elements must be strings", "stop", 0, 0)
         ELSE Valid
    ELSE ValidationError("stop must be a string or array of strings", "stop", 0, 0)

validatePenalty(penalty, paramName) ==
    IF IsAbsent(penalty) THEN Valid
    ELSE IF penalty.type # "number"
    THEN ValidationError("penalty must be a number", paramName, 0, 0)
    ELSE IF penalty.tenths < -20 \/ penalty.tenths > 20
    THEN ValidationError("penalty must be between -2 and 2", paramName, 0, 0)
    ELSE Valid

\* ModelDiscoveryService.getAllModels: the values of the model cache, which
\* holds every model probed, whatever its tier.  No pass runs while requests
\* are served in the specifications below and modelCache is CacheOf(modelPool)
\* there, so these are the pooled models.
getAllModels(pool) ==
    pool.primary \o pool.secondary \o pool.fallback \o pool.unhealthy

\* availableModels?.find(m => m.id === model)
FindModel(availableModels, model) ==
    LET found == SelectSeq(availableModels, LAMBDA m : m.id = model)
    IN  IF found = <<>> THEN None ELSE <<Head(found)>>

\* validateChatCompletionRequest on the parsed body: the checks throw in
\* this order (the checks of model, stream, functions, tools and user pass
\* on the requests held here).
validateChatCompletionRequest(request, availableModels) ==
    FirstThrown(<<
        validateEnhancedMessages(request.messages),
        validateTemperature(request.temperature),
        validateMaxTokens(request.max_tokens,
                          FindModel(availableModels, validateDynamicModel(request.model))),
        validateN(request.n),
        validateTopP(request.top_p),
        validateStop(request.stop),
        validatePenalty(request.presence_penalty, "presence_penalty"),
        validatePenalty(request.frequency_penalty, "frequency_penalty") >>)

(***************************************************************************)
(* The chat-completion pipeline: RequestHandler.handleChatCompletions.     *)
(***************************************************************************)
StageOrder ==
    <<"Received", "Validated", "ContextBuilt", "ModelSelected",
      "AccessChecked", "TokenBudgetChecked", "Converted", "Dispatched">>

\* Message contents: a string (its length and the number of newline,
\* carriage-return and tab characters in it), an array of parts, or a value
\* of another type.
StringContent(length, controls) ==
    [type |-> "string", length |-> length, controls |-> controls, parts |-> <<>>]

ArrayContent(parts) ==
    [type |-> "array", length |-> 0, controls |-> 0, parts |-> parts]

OtherContent == [type |-> "other", length |-> 0, controls |-> 0, parts |-> <<>>]

\* Content parts: text (length 0 when the text is missing or empty), an
\* image with the scheme and extension of its URL, or something else.
NoUrl == [scheme |-> "none", extension |-> "none"]
TextPart(length, controls) ==
    [type |-> "text", text |-> length, controls |-> controls, url |-> NoUrl]

ImagePart(scheme, extension) ==
    [type |-> "image_url", text |-> 0, controls |-> 0,
     url |-> [scheme |-> scheme, extension |-> extension]]

OtherPart(type) == [type |-> type, text |-> 0, controls |-> 0, url |-> NoUrl]

\* A message object; tool_calls is whether it carries a non-empty array of
\* tool calls.
MessageOf(role, content, toolCalls) ==
    [type |-> "object", role |-> role, content |-> content, tool_calls |-> toolCalls]

NotAMessage ==
    [type |-> "other", role |-> "none", content |-> OtherContent, tool_calls |-> FALSE]

Messages(items) == [type |-> "array", items |-> items]

\* A stop array of the given length whose elements are all strings, or not.
StopArray(length, strings) == [type |-> "array", length |-> length, strings |-> strings]

\* The request bodies a client may send: kind is what readRequestBody and
\* JSON.parse make of it ("unreadable", "malformed" or "json").  A body of
\* ChatBodies holds one user message of 4 * tokens characters, with one
\* image behind the text if images.
ChatBodies(models, streams, images, toolCalls, functions, tokens) ==
    { [NoBody EXCEPT
         !.kind = "json", !.model = m, !.stream = s, !.functions = f,
         !.messages = Messages(<<MessageOf("user",
                          IF i THEN ArrayContent(<<TextPart(4 * t, 0),
                                                   ImagePart("https://", "png")>>)
                               ELSE StringContent(4 * t, 0),
                          c)>>)] :
        m \in models, s \in streams, i \in images, c \in toolCalls,
        f \in functions, t \in tokens }

\* A body that cannot be read, one that is not JSON and one whose messages
\* are missing.
BadBodies ==
    { [NoBody EXCEPT !.kind = k] : k \in {"unreadable", "malformed", "json"} }

\* Converter.estimateTokens on a text of the given length with the given
\* number of newline, carriage-return and tab characters.
estimateTokens(length, controls) == (length + 3) \div 4 + controls

\* Array.prototype.reduce with +, from 0; the sum is taken by halves, which
\* gives the same number as + is associative.
RECURSIVE Sum(_)
Sum(numbers) ==
    IF Len(numbers) = 0 THEN 0
    ELSE IF Len(numbers) = 1 THEN numbers[1]
    ELSE LET half == Len(numbers) \div 2
         IN  Sum(SubSeq(numbers, 1, half))
               + Sum(SubSeq(numbers, half + 1, Len(numbers)))

\* The per-message term of the estimate of createEnhancedContext.
MessageTokens(msg) ==
    IF msg.content.type = "string"
    THEN estimateTokens(msg.content.length, msg.content.controls)
    ELSE IF msg.content.type = "array"
    THEN Sum([i \in DOMAIN msg.content.parts |->
                LET part == msg.content.parts[i]
                IN  IF part.type = "text" /\ part.text # 0
                    THEN estimateTokens(part.text, part.controls)
                    ELSE 100])
    ELSE 0

\* Converter.createEnhancedContext on the validated request.
createEnhancedContext(body) ==
    LET messages == body.messages.items
        hasImages == \E i \in DOMAIN messages :
                        /\ messages[i].content.type = "array"
                        /\ \E j \in DOMAIN messages[i].content.parts :
                              messages[i].content.parts[j].type = "image_url"
        hasFunctions == \E i \in DOMAIN messages : messages[i].tool_calls
    IN  [NoCtx EXCEPT
           !.body = body,
           !.isStream = body.stream,
           !.hasImages = hasImages,
           !.hasFunctions = hasFunctions,
           !.requiredCapabilities =
               (IF hasImages THEN {"supportsVision"} ELSE {}) \cup
               (IF hasFunctions THEN {"supportsTools"} ELSE {}) \cup
               (IF body.stream THEN {"supportsStreaming"} ELSE {}),
           !.estimatedTokens =
               Sum([i \in DOMAIN messages |-> MessageTokens(messages[i])])]

\* Mutation of selectionCriteria: no minimum context is asked for.
selectionCriteria_noMinimum(body, context) ==
    Criteria(context.requiredCapabilities, 0,
             context.hasImages, context.hasFunctions \/ body.functions, {},
             IF body.model # "auto-select" THEN {body.model} ELSE {},
             "capabilities")

\* The criteria handleChatCompletions hands to the selector.
selectionCriteria(body, context) ==
    Criteria(context.requiredCapabilities, context.estimatedTokens,
             context.hasImages, context.hasFunctions \/ body.functions, {},
             IF body.model # "auto-select" THEN {body.model} ELSE {},
             "capabilities")

\* Mutation of checkCopilotAccess: a probe that throws counts as access.
checkCopilotAccess_grantedOnThrow(answer) == answer # "none"

\* Mutation of checkCopilotAccess: access is granted whatever the provider
\* answers.
checkCopilotAccess_alwaysGranted(answer) == TRUE

\* RequestHandler.checkCopilotAccess on the provider's answer to
\* selectChatModels: "models" (a non-empty list), "none" or "throws".
checkCopilotAccess(answer) == answer = "models"

AccessAnswers == {"models", "none", "throws"}

\* The handler of r returns with response newRes (a failure if failed) and
\* the finally block of handleRequest runs.
Returns(r, newRes, failed) ==
    /\ pc' = [pc EXCEPT ![r] = "done"]
    /\ res' = [res EXCEPT ![r] = newRes]
    /\ fail' = [fail EXCEPT ![r] = IF failed THEN Failed(@, res[r]) ELSE @]
    /\ Finally(r, activeRequests)

\* Mutation of Throws: after a first error of the provider the handler goes
\* back to dispatch the request once more.
Throws_retries(r, newRes, raised) ==
    IF sends[r] < 2 /\ ~res[r].headersSent
    THEN /\ pc' = [pc EXCEPT ![r] = "access"]
         /\ fail' = [fail EXCEPT ![r].raised = raised]
         /\ UNCHANGED <<res, activeRequests, activeConnections>>
    ELSE /\ pc' = [pc EXCEPT ![r] = "done"]
         /\ res' = [res EXCEPT ![r] = newRes]
         /\ fail' = [fail EXCEPT ![r] = [Failed(@, res[r]) EXCEPT !.raised = raised]]
         /\ Finally(r, activeRequests)

\* The provider raised an error for r (at sendRequest or while its response
\* was read), the lmError catch answered with newRes and the handler returns.
Throws(r, newRes, raised) ==
    /\ pc' = [pc EXCEPT ![r] = "done"]
    /\ res' = [res EXCEPT ![r] = newRes]
    /\ fail' = [fail EXCEPT ![r] = [Failed(@, res[r]) EXCEPT !.raised = raised]]
    /\ Finally(r, activeRequests)

\* handleChatCompletions from the end of the body read to the await of the
\* access check: parse, validate, build the context, select a model.
handleChatCompletions_body(r, body) ==
    /\ pc[r] = "body"
    /\ UNCHANGED <<poolVars, toolVars, maxConcurrentRequests, isRunning, isShuttingDown,
                   route, sends, sentTo, strm>>
    /\ CASE body.kind = "unreadable" ->
              /\ ctx' = [ctx EXCEPT ![r].body = body]
              /\ UNCHANGED stages
              /\ Returns(r, IF ~res[r].headersSent
                            THEN sendErrorResponse(res[r], HTTP_STATUS.INTERNAL_SERVER_ERROR,
                                                   Message("Enhanced request processing failed", <<>>),
                                                   ERROR_CODES.API_ERROR, "none")
                            ELSE res[r], TRUE)
         [] body.kind = "malformed" ->
              /\ ctx' = [ctx EXCEPT ![r].body = body]
              /\ UNCHANGED stages
              /\ Returns(r, sendErrorResponse(res[r], HTTP_STATUS.BAD_REQUEST,
                                              Message("Invalid JSON in request body", <<>>),
                                              ERROR_CODES.INVALID_REQUEST, "none"), TRUE)
         [] ~validateChatCompletionRequest(body, getAllModels(modelPool)).ok ->
              LET validationError ==
                      validateChatCompletionRequest(body, getAllModels(modelPool))
              IN  /\ ctx' = [ctx EXCEPT ![r].body = [body EXCEPT !.kind = "invalid"]]
                  /\ UNCHANGED stages
                  /\ Returns(r, sendErrorResponse(res[r], HTTP_STATUS.BAD_REQUEST,
                                    Message(validationError.message,
                                            <<validationError.index, validationError.part>>),
                                    validationError.code, validationError.param), TRUE)
         [] OTHER ->
              LET validatedRequest ==
                      [body EXCEPT !.kind = "valid",
                                   !.model = validateDynamicModel(body.model)]
                  context == createEnhancedContext(validatedRequest)
                  selectedModel == selectOptimalModel(modelPool,
                                       selectionCriteria(validatedRequest, context))
              IN  IF selectedModel = None
                  THEN /\ ctx' = [ctx EXCEPT ![r] = context]
                       /\ stages' = [stages EXCEPT ![r] = @ \o <<"Validated", "ContextBuilt">>]
                       /\ Returns(r, sendErrorResponse(res[r], HTTP_STATUS.SERVICE_UNAVAILABLE,
                                        Message("No suitable model available for request requirements", <<>>),
                                        ERROR_CODES.API_ERROR, "none"), TRUE)
                  ELSE /\ ctx' = [ctx EXCEPT ![r] =
                                    [context EXCEPT !.selectedModel = selectedModel]]
                       /\ stages' = [stages EXCEPT ![r] =
                                       @ \o <<"Validated", "ContextBuilt", "ModelSelected">>]
                       /\ pc' = [pc EXCEPT ![r] = "access"]
                       /\ UNCHANGED <<res, fail, activeRequests, activeConnections>>

\* Mutation of sendRequestTarget: the request goes to the best model of the
\* pool whatever the context holds.
sendRequestTarget_bestOfPool(pool, context) ==
    LET best == selectOptimalModel(pool, NoCriteria)
    IN  IF best = None THEN context.selectedModel[1] ELSE best[1]

\* The model whose handle receives sendRequest: selectedModel.vsCodeModel.
sendRequestTarget(pool, context) == context.selectedModel[1]

\* handleChatCompletions from the answer of the access check to the await of
\* sendRequest: access, token budget, conversion, dispatch.
handleChatCompletions_access(r, answer) ==
    /\ pc[r] = "access"
    /\ ctx' = [ctx EXCEPT ![r].hasAccess = answer]
    /\ UNCHANGED <<poolVars, toolVars, maxConcurrentRequests, isRunning, isShuttingDown,
                   route, strm>>
    /\ IF ~checkCopilotAccess(answer)
       THEN /\ UNCHANGED <<stages, sends, sentTo>>
            /\ Returns(r, sendErrorResponse(res[r], HTTP_STATUS.UNAUTHORIZED,
                                            Message(NOTIFICATIONS.NO_COPILOT_ACCESS, <<>>),
                                            ERROR_CODES.AUTHENTICATION_ERROR, "none"), TRUE)
       ELSE IF ctx[r].estimatedTokens > ctx[r].selectedModel[1].maxInputTokens
       THEN /\ stages' = [stages EXCEPT ![r] = @ \o <<"AccessChecked">>]
            /\ UNCHANGED <<sends, sentTo>>
            /\ Returns(r, sendErrorResponse(res[r], HTTP_STATUS.BAD_REQUEST,
                                            Message("Request exceeds model context limit",
                                                    <<ctx[r].estimatedTokens,
                                                      ctx[r].selectedModel[1].maxInputTokens>>),
                                            ERROR_CODES.INVALID_REQUEST, "none"), TRUE)
       ELSE /\ stages' = [stages EXCEPT ![r] =
                            @ \o <<"AccessChecked", "TokenBudgetChecked",
                                   "Converted", "Dispatched">>]
            /\ sends' = [sends EXCEPT ![r] = @ + 1]
            /\ sentTo' = [sentTo EXCEPT ![r] = Append(@, sendRequestTarget(modelPool, ctx[r]))]
            /\ pc' = [pc EXCEPT ![r] = "send"]
            /\ UNCHANGED <<res, fail, activeRequests, activeConnections>>

\* The codes of vscode.LanguageModelError, and "Error" for any other throw.
LMErrors == {"NoPermissions", "Blocked", "NotFound", "ContextLengthExceeded",
             "Unknown", "Error"}

\* RequestHandler.handleLanguageModelError and the else branch beside it.
handleLanguageModelError(resp, code) ==
    CASE code \in {"NoPermissions", "Blocked"} ->
            sendErrorResponse(resp, HTTP_STATUS.FORBIDDEN, Message(code, <<>>),
                              ERROR_CODES.PERMISSION_ERROR, "none")
      [] code = "NotFound" ->
            sendErrorResponse(resp, HTTP_STATUS.NOT_FOUND, Message(code, <<>>),
                              ERROR_CODES.NOT_FOUND_ERROR, "none")
      [] code = "ContextLengthExceeded" ->
            sendErrorResponse(resp, HTTP_STATUS.BAD_REQUEST, Message(code, <<>>),
                              ERROR_CODES.INVALID_REQUEST, "none")
      [] OTHER ->
            sendErrorResponse(resp, HTTP_STATUS.BAD_GATEWAY, Message(code, <<>>),
                              ERROR_CODES.API_ERROR, "none")

\* handleChatCompletions when sendRequest settles: with a response
\* (outcome "response") or with a throw (outcome in LMErrors).
handleChatCompletions_response(r, outcome) ==
    /\ pc[r] = "send"
    /\ UNCHANGED <<poolVars, toolVars, maxConcurrentRequests, isRunning, isShuttingDown,
                   route, stages, ctx, sends, sentTo, strm>>
    /\ IF outcome # "response"
       THEN Throws(r, handleLanguageModelError(res[r], outcome), outcome)
       ELSE IF ~ctx[r].isStream
       THEN /\ pc' = [pc EXCEPT ![r] = "collect"]
            /\ UNCHANGED <<res, fail, activeRequests, activeConnections>>
       ELSE IF res[r].headersSent
       THEN \* writeHead throws ERR_HTTP_HEADERS_SENT into the lmError catch
            Returns(r, handleLanguageModelError(res[r], "Error"), TRUE)
       ELSE /\ res' = [res EXCEPT ![r] =
                         [writeHeadAndEnd(@, HTTP_STATUS.OK, "sse", "none")
                            EXCEPT !.ended = FALSE]]
            /\ pc' = [pc EXCEPT ![r] = "stream"]
            /\ UNCHANGED <<fail, activeRequests, activeConnections>>

\* Converter.collectFullResponse when the iteration of response.text ends
\* ("none") or throws an error of LMErrors: what it throws in turn.  The
\* catch block throws a new plain Error whatever it caught.
collectFullResponse(thrown) == IF thrown = "none" THEN "none" ELSE "Error"

\* RequestHandler.handleNonStreamingResponse when collectFullResponse
\* settles, the provider's stream having ended (thrown = "none") or thrown.
\* What it catches it throws again, into the lmError catch of
\* handleChatCompletions.
handleNonStreamingResponse(r, thrown) ==
    /\ pc[r] = "collect"
    /\ UNCHANGED <<poolVars, toolVars, maxConcurrentRequests, isRunning, isShuttingDown,
                   route, stages, ctx, sends, sentTo, strm>>
    /\ IF collectFullResponse(thrown) # "none"
       THEN Throws(r, handleLanguageModelError(res[r], collectFullResponse(thrown)),
                   thrown)
       ELSE IF res[r].headersSent
       THEN \* writeHead throws ERR_HTTP_HEADERS_SENT
            Returns(r, handleLanguageModelError(res[r], "Error"), TRUE)
       ELSE Returns(r, writeHeadAndEnd(res[r], HTTP_STATUS.OK, "json", "none"), FALSE)

(***************************************************************************)
(* The streaming translator: Converter.extractStreamContent consumed by    *)
(* RequestHandler.handleStreamingResponse.                                 *)
(***************************************************************************)
\* The text fragments a provider stream may yield.
Fragments == {"", "Hel", "lo"}

\* Converter.createStreamChunk: the delta carries a role only on the first
\* chunk and a content only when the content is not empty.
createStreamChunk(content, isFirst, isLast) ==
    [object |-> "chat.completion.chunk",
     role |-> IF isFirst THEN "assistant" ELSE "none",
     content |-> content,
     finish_reason |-> IF isLast THEN "stop" ELSE "null"]

\* The payload of the error event of the translator.
StreamError ==
    [object |-> "error", role |-> "none", content |-> ERROR_CODES.API_ERROR,
     finish_reason |-> "null"]

\* createSSEEvent called without data.
NoData ==
    [object |-> "none", role |-> "none", content |-> "", finish_reason |-> "null"]

\* Converter.createSSEEvent
createSSEEvent(type, data) ==
    CASE type = "data" -> [line |-> "data: {json}", data |-> data]
      [] type = "done" -> [line |-> "data: [DONE]", data |-> data]
      [] OTHER         -> [line |-> "data: {json}",
                           data |-> [data EXCEPT !.object = "error"]]

\* Mutation of extractStreamContent_completes: no stop chunk.
extractStreamContent_completes_noStop == <<createSSEEvent("done", NoData)>>

\* What extractStreamContent yields when the provider stream is exhausted.
extractStreamContent_completes ==
    <<createSSEEvent("data", createStreamChunk("", FALSE, TRUE)),
      createSSEEvent("done", NoData)>>

\* Mutation of extractStreamContent_next: empty fragments are forwarded too.
extractStreamContent_next_forwardsEmpty(chunk, isFirst) ==
    <<createSSEEvent("data", createStreamChunk(chunk, isFirst, FALSE))>>

\* What extractStreamContent yields for one fragment of the provider.
extractStreamContent_next(chunk, isFirst) ==
    IF chunk # ""
    THEN <<createSSEEvent("data", createStreamChunk(chunk, isFirst, FALSE))>>
    ELSE <<>>

\* Mutation of extractStreamContent_catch: the error is thrown on after the
\* error event.
extractStreamContent_catch_rethrows ==
    [yields |-> <<createSSEEvent("error", StreamError)>>, throws |-> TRUE]

\* The catch block of extractStreamContent: one error event, no throw.
extractStreamContent_catch ==
    [yields |-> <<createSSEEvent("error", StreamError)>>, throws |-> FALSE]

\* The provider yields one more fragment and handleStreamingResponse writes
\* what the translator makes of it (at most n fragments per stream).
handleStreamingResponse_fragment(r, chunk, n) ==
    /\ pc[r] = "stream"
    /\ Len(strm[r].frags) < n
    /\ strm' = [strm EXCEPT
                  ![r].frags = Append(@, chunk),
                  ![r].out = @ \o extractStreamContent_next(chunk, strm[r].isFirst),
                  ![r].isFirst = @ /\ chunk = ""]
    /\ UNCHANGED <<poolVars, toolVars, serverVars, pc, route, stages, res, ctx, sends, sentTo, fail>>

\* The provider stream is exhausted: the translator's last events are
\* written and the finally block ends the response.
handleStreamingResponse_completes(r) ==
    /\ pc[r] = "stream"
    /\ strm' = [strm EXCEPT ![r].out = @ \o extractStreamContent_completes,
                            ![r].ended = "ok"]
    /\ Returns(r, [res[r] EXCEPT !.ended = TRUE], FALSE)
    /\ UNCHANGED <<poolVars, toolVars, maxConcurrentRequests, isRunning, isShuttingDown,
                   route, stages, ctx, sends, sentTo>>

\* The provider stream throws: the translator's catch block runs, then the
\* catch block of handleStreamingResponse if the translator throws, then the
\* finally block.
handleStreamingResponse_throws(r) ==
    /\ pc[r] = "stream"
    /\ strm' = [strm EXCEPT
                  ![r].out = @ \o extractStreamContent_catch.yields
                               \o (IF extractStreamContent_catch.throws
                                   THEN <<createSSEEvent("error", StreamError)>>
                                   ELSE <<>>),
                  ![r].ended = "error"]
    /\ Returns(r, [res[r] EXCEPT !.ended = TRUE], TRUE)
    /\ UNCHANGED <<poolVars, toolVars, maxConcurrentRequests, isRunning, isShuttingDown,
                   route, stages, ctx, sends, sentTo>>

(***************************************************************************)
(* Tool execution: FunctionCallService.executeToolCall.                    *)
(***************************************************************************)
\* Most executions the counters of the registry stand for together.
MaxCalls == 2

\* The built-in tools with the required parameters of their schemas, in
\* the order of the schema.
BuiltInTools ==
    [calculator |-> <<"expression">>,
     datetime   |-> <<>>,
     file_info  |-> <<"path", "operation">>]

\* The names a tool call may carry.
ToolNames == DOMAIN BuiltInTools \cup {"weather"}

\* registerTool: the entry a tool is registered with.
registerTool(required) ==
    [required |-> required, isEnabled |-> TRUE, usageCount |-> 0, errorCount |-> 0]

\* The argument strings of a tool call, by what JSON.parse makes of them: a
\* syntax error, an object with the given keys, or a value that is not an
\* object (null, a number), on which the `in` operator throws.
ToolArguments ==
    {[json |-> "invalid", keys |-> {}], [json |-> "primitive", keys |-> {}]}
    \cup { [json |-> "object", keys |-> k] :
             k \in SUBSET {"expression", "path", "operation"} }

\* No call of executeToolCall is in progress and none has returned.
\* registryEntry tells whether the entry the try block holds is still the
\* one in the registry ("current"), was replaced by a later registerTool
\* ("replaced"), or was never found ("none"); events are the events the
\* call has fired; abandoned counts the handlers that lost the race to the
\* timer and are still running; handlerOutcome and handlerTime are what the
\* handler of the call did and the milliseconds it took.
NoToolCall ==
    [pc |-> "idle", toolName |-> "none", outcome |-> "none", success |-> FALSE,
     error |-> "none", handlerCalls |-> 0, registryEntry |-> "none",
     events |-> <<>>, abandoned |-> 0, handlerOutcome |-> "none", handlerTime |-> 0]

\* The registry after the constructor.
ToolsRegistered ==
    /\ toolRegistry = [id \in DOMAIN BuiltInTools |-> registerTool(BuiltInTools[id])]
    /\ toolCall = NoToolCall

\* FunctionCallService.validateParameters: the error it reports, or "none".
\* The loop runs in the order of schema.required; the catch block turns the
\* TypeError of `in` on a value that is not an object into an error too.
validateParameters(parameters, required) ==
    LET missing == SelectSeq(required, LAMBDA name : name \notin parameters.keys)
    IN  IF required = <<>> THEN "none"
        ELSE IF parameters.json = "primitive" THEN "TypeError"
        ELSE IF missing = <<>> THEN "none"
        ELSE Head(missing)

\* What the try block of executeToolCall throws before it calls the
\* handler, or "none": the checks in the order of the code.
executeToolCall_check_jsonFirst(registry, toolName, arguments) ==
    IF arguments.json = "invalid" THEN "InvalidJSON"
    ELSE IF toolName \notin DOMAIN registry THEN "ToolNotFound"
    ELSE IF ~registry[toolName].isEnabled THEN "ToolDisabled"
    ELSE IF validateParameters(arguments, registry[toolName].required) # "none"
    THEN "ValidationFailed"
    ELSE "none"

executeToolCall_check(registry, toolName, arguments) ==
    IF toolName \notin DOMAIN registry THEN "ToolNotFound"
    ELSE IF ~registry[toolName].isEnabled THEN "ToolDisabled"
    ELSE IF arguments.json = "invalid" THEN "InvalidJSON"
    ELSE IF validateParameters(arguments, registry[toolName].required) # "none"
    THEN "ValidationFailed"
    ELSE "none"

\* The catch block of executeToolCall: the error count of a registered tool
\* goes up and the error is returned.
executeToolCall_catch(call, error) ==
    [call EXCEPT !.pc = "returned", !.outcome = "returned",
                 !.success = FALSE, !.error = error,
                 !.events = Append(@, "tool_error")]

ErrorCounted(registry, toolName) ==
    IF toolName \in DOMAIN registry
    THEN [registry EXCEPT ![toolName].errorCount = @ + 1]
    ELSE registry

\* The executions the counters of the registry stand for.
ToolOrder ==
    CHOOSE order \in [1..Cardinality(ToolNames) -> ToolNames] :
        \A id \in ToolNames : \E i \in DOMAIN order : order[i] = id

CountedCalls(registry) ==
    Sum([i \in DOMAIN ToolOrder |->
           IF ToolOrder[i] \in DOMAIN registry
           THEN registry[ToolOrder[i]].usageCount + registry[ToolOrder[i]].errorCount
           ELSE 0])

\* executeToolCall from its call to the await of the race between the
\* handler and the 30 s timer, or to its return from the catch block.
executeToolCall_call(toolName, arguments) ==
    /\ toolCall.pc = "idle"
    /\ toolCall.abandoned < MaxCalls
    /\ CountedCalls(toolRegistry) < MaxCalls
    /\ LET thrown == executeToolCall_check(toolRegistry, toolName, arguments)
       IN  IF thrown # "none"
           THEN /\ toolCall' = executeToolCall_catch(
                                   [toolCall EXCEPT !.toolName = toolName], thrown)
                /\ toolRegistry' = ErrorCounted(toolRegistry, toolName)
           ELSE /\ toolCall' = [toolCall EXCEPT !.pc = "handler",
                                                !.toolName = toolName,
                                                !.handlerCalls = @ + 1,
                                                !.registryEntry = "current"]
                /\ UNCHANGED toolRegistry
    /\ UNCHANGED <<poolVars, serverVars, requestVars, handlerVars>>

UsageCounted_fromRegistry(registry, call) ==
    [registry EXCEPT ![call.toolName].usageCount = @ + 1]

\* registryEntry.usageCount++ on the entry the try block got before the
\* await: the registry shows it unless the entry was replaced meanwhile.
UsageCounted(registry, call) ==
    IF call.registryEntry = "current"
    THEN [registry EXCEPT ![call.toolName].usageCount = @ + 1]
    ELSE registry

\* The delay of the timer the handler is raced against, in milliseconds.
TOOL_TIMEOUT == 30000

\* What a handler does (it resolves, or it rejects or throws when called),
\* and the milliseconds it takes to do it.
HandlerOutcomes == {"resolved", "HandlerError"}

HandlerTimes == {TOOL_TIMEOUT - 1, TOOL_TIMEOUT, TOOL_TIMEOUT + 1}

\* Promise.race of the handler's promise and the timer's: the one that
\* settles first decides; when both settle in the same millisecond the
\* order in which the event loop runs them does (timerFirst).
PromiseRace(handlerOutcome, handlerTime, timerFirst) ==
    IF handlerTime < TOOL_TIMEOUT THEN handlerOutcome
    ELSE IF handlerTime > TOOL_TIMEOUT THEN "Timeout"
    ELSE IF timerFirst THEN "Timeout"
    ELSE handlerOutcome

\* executeToolCall when the race settles.
executeToolCall_settles(handlerOutcome, handlerTime, timerFirst) ==
    /\ toolCall.pc = "handler"
    /\ LET settled == PromiseRace(handlerOutcome, handlerTime, timerFirst)
           raced == [toolCall EXCEPT !.handlerTime = handlerTime,
                                     !.handlerOutcome = handlerOutcome]
       IN
       IF settled = "resolved"
       THEN /\ toolCall' = [raced EXCEPT !.pc = "returned", !.outcome = "returned",
                                         !.success = TRUE, !.error = "none",
                                         !.events = Append(@, "tool_executed")]
            /\ toolRegistry' = UsageCounted(toolRegistry, toolCall)
       ELSE /\ toolCall' = executeToolCall_catch(
                               [raced EXCEPT !.abandoned =
                                   IF settled = "Timeout" THEN @ + 1 ELSE @], settled)
            /\ toolRegistry' = ErrorCounted(toolRegistry, toolCall.toolName)
    /\ UNCHANGED <<poolVars, serverVars, requestVars, handlerVars>>

\* What the settling of an abandoned handler does to the call record.
AbandonedSettles_returnsIt(call, outcome) ==
    [call EXCEPT !.abandoned = @ - 1,
                 !.success = (outcome = "resolved"),
                 !.error = IF outcome = "resolved" THEN "none" ELSE outcome]

AbandonedSettles(call, outcome) == [call EXCEPT !.abandoned = @ - 1]

\* The caller has the result; the next call may come.
executeToolCall_returned ==
    /\ toolCall.pc = "returned"
    /\ toolCall' = [NoToolCall EXCEPT !.abandoned = toolCall.abandoned]
    /\ UNCHANGED <<toolRegistry, poolVars, serverVars, requestVars, handlerVars>>

\* A handler that lost the race to the timer resolves or rejects: the race
\* has settled, so nothing is left that reads its outcome.
handler_settlesAfterTimeout(outcome) ==
    /\ toolCall.abandoned > 0
    /\ toolCall' = AbandonedSettles(toolCall, outcome)
    /\ toolRegistry' = toolRegistry
    /\ UNCHANGED <<poolVars, serverVars, requestVars, handlerVars>>

\* registerTool is called for an id: a new entry takes the place of the one
\* the registry had, if any.
registerTool_call(id) ==
    /\ toolRegistry' =
          [i \in DOMAIN toolRegistry \cup {id} |->
             IF i = id
             THEN registerTool(IF id \in DOMAIN BuiltInTools
                               THEN BuiltInTools[id] ELSE <<>>)
             ELSE toolRegistry[i]]
    /\ toolCall' = IF toolCall.pc = "handler" /\ toolCall.toolName = id
                   THEN [toolCall EXCEPT !.registryEntry = "replaced"]
                   ELSE toolCall
    /\ UNCHANGED <<poolVars, serverVars, requestVars, handlerVars>>

\* FunctionCallService.setToolEnabled
setToolEnabled(toolId, enabled) ==
    /\ toolId \in DOMAIN toolRegistry
    /\ toolRegistry' = [toolRegistry EXCEPT ![toolId].isEnabled = enabled]
    /\ UNCHANGED <<toolCall, poolVars, serverVars, requestVars, handlerVars>>

(***************************************************************************)
(* The file inspector: FunctionCallService.fileInfoHandler and             *)
(* validateAndNormalizePath, on POSIX paths.  A path is the sequence of    *)
(* its characters; a resolved path is the sequence of its segments.        *)
(***************************************************************************)
\* Longest path drawn character by character.
MaxPath == 4

\* The characters paths are drawn from: "NUL" is the null byte, "e" is a
\* letter and a hexadecimal digit, "w" a letter that is no such digit.
PathChars == {".", "/", "~", "\\", "NUL", "%", "e", "w", ":"}

Letters ==
    {"a", "b", "c", "d", "e", "f", "g", "h", "i", "j", "k", "l", "m", "n", "o",
     "p", "q", "r", "s", "t", "u", "v", "w", "x", "y", "z",
     "A", "B", "C", "D", "E", "F", "G", "H", "I", "J", "K", "L", "M", "N", "O",
     "P", "Q", "R", "S", "T", "U", "V", "W", "X", "Y", "Z"}

HexDigits ==
    {"0", "1", "2", "3", "4", "5", "6", "7", "8", "9",
     "a", "b", "c", "d", "e", "f", "A", "B", "C", "D", "E", "F"}

\* The working directories of the process: / and /w.
WorkingDirectories == {<<>>, << <<"w">> >>}

\* The `path` parameter: a string, or a value of another type.
PathParameter(type, chars) == [type |-> type, chars |-> chars]

PathParameters ==
    { PathParameter("string", chars) :
        chars \in UNION { [1..k -> PathChars] : k \in 0..MaxPath }
                  \cup { [i \in 1..1000 |-> "w"], [i \in 1..1001 |-> "w"] } }
    \cup { PathParameter("undefined", <<>>), PathParameter("number", <<>>) }

\* The `operation` parameter.
Operations == {"exists", "stat", "list", "delete"}

\* String.prototype.startsWith and a regular expression that is a literal.
StartsWith(s, prefix) ==
    Len(s) >= Len(prefix) /\ SubSeq(s, 1, Len(prefix)) = prefix

Contains(s, literal) ==
    \E i \in 1..(Len(s) - Len(literal) + 1) :
        SubSeq(s, i, i + Len(literal) - 1) = literal

dangerousPatterns_noTraversal(filePath) ==
    << FALSE,
       Contains(filePath, <<"~">>),
       Contains(filePath, <<"NUL">>),
       Contains(filePath, <<"\\">>),
       Len(filePath) >= 2 /\ filePath[1] = "/" /\ filePath[2] # "/",
       Len(filePath) >= 2 /\ filePath[1] \in Letters /\ filePath[2] = ":",
       \E i \in 1..(Len(filePath) - 2) :
           /\ filePath[i] = "%"
           /\ filePath[i + 1] \in HexDigits
           /\ filePath[i + 2] \in HexDigits >>

\* dangerousPatterns, each tested on filePath, in the order of the array.
dangerousPatterns(filePath) ==
    << Contains(filePath, <<".", ".">>),
       Contains(filePath, <<"~">>),
       Contains(filePath, <<"NUL">>),
       Contains(filePath, <<"%", "2", "e">>) \/ Contains(filePath, <<"%", "2", "E">>),
       Contains(filePath, <<"%", "2", "f">>) \/ Contains(filePath, <<"%", "2", "F">>),
       Contains(filePath, <<"%", "5", "c">>) \/ Contains(filePath, <<"%", "5", "C">>),
       Contains(filePath, <<"\\">>),
       Len(filePath) >= 2 /\ filePath[1] = "/" /\ filePath[2] # "/",
       Len(filePath) >= 2 /\ filePath[1] \in Letters /\ filePath[2] = ":",
       \E i \in 1..(Len(filePath) - 2) :
           /\ filePath[i] = "%"
           /\ filePath[i + 1] \in HexDigits
           /\ filePath[i + 2] \in HexDigits >>

\* path.isAbsolute
isAbsolute(filePath) == Len(filePath) > 0 /\ filePath[1] = "/"

\* String.prototype.split("/"): the pieces between the slashes, the empty
\* ones included.
Split(s) ==
    LET cuts == {0, Len(s) + 1} \cup {i \in 1..Len(s) : s[i] = "/"}
        cut(k) == CHOOSE c \in cuts : Cardinality({b \in cuts : b < c}) = k - 1
    IN  [k \in 1..(Cardinality(cuts) - 1) |-> SubSeq(s, cut(k) + 1, cut(k + 1) - 1)]

\* normalizeString of path.resolve: empty and "." segments are dropped and
\* ".." removes the segment before it, if there is one.
RECURSIVE normalizeString(_, _)
normalizeString(segments, resolved) ==
    IF segments = <<>> THEN resolved
    ELSE LET segment == Head(segments)
         IN  normalizeString(Tail(segments),
                 IF segment = <<>> \/ segment = <<".">> THEN resolved
                 ELSE IF segment = <<".", ".">>
                 THEN SubSeq(resolved, 1, Len(resolved) - 1)
                 ELSE Append(resolved, segment))

\* path.resolve(filePath) in the working directory cwd.
resolve(cwd, filePath) ==
    IF isAbsolute(filePath) THEN normalizeString(Split(filePath), <<>>)
    ELSE normalizeString(cwd \o Split(filePath), <<>>)

\* The string of a resolved path, and of a list of segments joined by "/".
RECURSIVE Join(_)
Join(segments) ==
    IF segments = <<>> THEN <<>>
    ELSE IF Len(segments) = 1 THEN segments[1]
    ELSE segments[1] \o <<"/">> \o Join(Tail(segments))

PathString(segments) == <<"/">> \o Join(segments)

\* path.relative(from, to) on two resolved paths.
relative(from, to) ==
    LET common == CHOOSE k \in 0..Len(from) :
                     /\ k <= Len(to)
                     /\ SubSeq(from, 1, k) = SubSeq(to, 1, k)
                     /\ \A j \in (k + 1)..Len(from) :
                           j > Len(to) \/ SubSeq(from, 1, j) # SubSeq(to, 1, j)
    IN  Join([i \in 1..(Len(from) - common) |-> <<".", ".">>]
                \o SubSeq(to, common + 1, Len(to)))

\* validateAndNormalizePath: the error it throws, or the resolved path.
Rejected(error) == [ok |-> FALSE, error |-> error, path |-> <<>>]

Accepted(normalizedPath) == [ok |-> TRUE, error |-> "none", path |-> normalizedPath]

validateAndNormalizePath(filePath, cwd) ==
    LET normalizedPath == resolve(cwd, filePath)
        patterns == dangerousPatterns(filePath)
    IN  IF Len(filePath) > 1000 THEN Rejected("PathTooLong")
        ELSE IF \E i \in DOMAIN patterns : patterns[i]
        THEN Rejected("DangerousPattern")
        ELSE IF isAbsolute(filePath) THEN Rejected("AbsolutePath")
        ELSE IF ~StartsWith(PathString(normalizedPath), PathString(cwd))
        THEN Rejected("OutOfRange")
        ELSE IF StartsWith(relative(cwd, normalizedPath), <<".", ".">>)
        THEN Rejected("InvalidNormalizedPath")
        ELSE Accepted(normalizedPath)

\* No call of fileInfoHandler: accessed lists the paths handed to fs.promises.
NoFileInfo ==
    [pc |-> "idle", cwd |-> <<>>, path |-> PathParameter("undefined", <<>>),
     operation |-> "none", normalizedPath |-> <<>>, accessed |-> <<>>,
     result |-> "none", error |-> "none"]

\* No call of calculatorHandler.
NoCalc ==
    [pc |-> "idle", expression |-> <<>>, safeExpression |-> <<>>,
     result |-> [type |-> "none", value |-> [n |-> 0, d |-> 1], error |-> "none"]]

\* No call of createCompletionResponse. The repository holds two versions of
\* the converter; converter names the one that is built.
NoCompletion ==
    [pc |-> "idle", converter |-> "none", messages |-> <<>>,
     content |-> [length |-> 0, controls |-> 0], estimatedTokens |-> 0,
     usage |-> [prompt_tokens |-> 0, completion_tokens |-> 0, total_tokens |-> 0]]

\* No call of handleModelRefresh.
NoRefresh ==
    [pc |-> "idle", allModels |-> <<>>, next |-> 0, discoveredModels |-> <<>>,
     status |-> 0, modelCount |-> 0]

\* No request has reached the preparation of its tools.  supportsTools is
\* the flag of the selected model, functions the names of the functions of
\* the request in their order, hasTools whether its tools list is not
\* empty; vsCodeTools are the names of the prepared tools, and tools is
\* what the options of sendRequest carry: the prepared tools, or, when
\* defined is FALSE, undefined.
NoRequestOptions ==
    [pc |-> "idle", supportsTools |-> FALSE, functions |-> <<>>, hasTools |-> FALSE,
     vsCodeTools |-> <<>>, tools |-> [defined |-> FALSE, value |-> <<>>]]

\* The discovery service the CopilotServer constructs for itself, before any
\* pass, and no refresh request.
RefreshIdle ==
    /\ serverModelPool = EmptyPool
    /\ refresh = NoRefresh

HandlersIdle ==
    /\ fileInfo = NoFileInfo
    /\ calc = NoCalc
    /\ completion = NoCompletion
    /\ RefreshIdle
    /\ requestOptions = NoRequestOptions

\* fileInfoHandler from its call to its first await, or to its throw.
fileInfoHandler_call(operation) ==
    /\ fileInfo.pc = "idle"
    /\ LET filePath == fileInfo.path
           thrown(error) == [fileInfo EXCEPT !.pc = "thrown", !.operation = operation,
                                             !.error = error]
           validated == validateAndNormalizePath(filePath.chars, fileInfo.cwd)
       IN  fileInfo' =
             IF filePath.type # "string" \/ filePath.chars = <<>>
             THEN thrown("InvalidPathParameter")
             ELSE IF ~validated.ok THEN thrown(validated.error)
             ELSE IF ~StartsWith(PathString(validated.path), PathString(fileInfo.cwd))
             THEN thrown("OutsideWorkingDirectory")
             ELSE IF operation \notin {"exists", "stat", "list"}
             THEN thrown("FileOperationFailed")
             ELSE [fileInfo EXCEPT !.pc = "fs", !.operation = operation,
                                   !.normalizedPath = validated.path]
    /\ UNCHANGED <<calc, completion, refreshVars, toolRegistry, toolCall, poolVars, serverVars,
                   requestVars>>

\* The fs.promises call of the operation resolves or rejects.
fileInfoHandler_fs(resolves) ==
    /\ fileInfo.pc = "fs"
    /\ fileInfo' =
         LET touched == [fileInfo EXCEPT !.accessed = Append(@, fileInfo.normalizedPath)]
         IN  IF resolves
             THEN [touched EXCEPT !.pc = "returned", !.result = fileInfo.operation]
             ELSE IF fileInfo.operation = "exists"
             THEN [touched EXCEPT !.pc = "returned", !.result = "notExists"]
             ELSE [touched EXCEPT !.pc = "thrown", !.error = "FileOperationFailed"]
    /\ UNCHANGED <<calc, completion, refreshVars, toolRegistry, toolCall, poolVars, serverVars,
                   requestVars>>

(***************************************************************************)
(* The arithmetic evaluator: FunctionCallService.calculatorHandler,        *)
(* safeEval and parseExpression.  An expression is the sequence of its     *)
(* characters; a number is held exactly, as a fraction in lowest terms     *)
(* (the code computes in IEEE doubles).                                    *)
(***************************************************************************)
\* Longest expression drawn character by character.
MaxExpr == 4

\* The characters expressions are drawn from.
ExprChars == {"0", "2", ".", "+", "-", "*", "/", "(", ")", " "}

Digits == {"0", "1", "2", "3", "4", "5", "6", "7", "8", "9"}

DigitValue(c) ==
    CASE c = "0" -> 0 [] c = "1" -> 1 [] c = "2" -> 2 [] c = "3" -> 3 [] c = "4" -> 4
      [] c = "5" -> 5 [] c = "6" -> 6 [] c = "7" -> 7 [] c = "8" -> 8 [] c = "9" -> 9

\* Longer expressions, among them those of the documentation and some with
\* characters that the handler strips.
ExampleExpressions ==
    { <<"2", "+", "3", "*", "4">>,
      <<"(", "2", "+", "3", ")", "*", "4">>,
      <<"8", "/", "4", "/", "2">>,
      <<"9", "-", "3", "-", "2">>,
      <<"2", "a", "+", "3", "*", "a", "4">>,
      <<"-", "(", "2", "+", "3", ")", "*", "-", "4">>,
      <<"2", "*", "(", "3", "+", "4", ")", "-", "1">>,
      <<"1", ".", "5", "*", "(", "2", "+", "2", ")">>,
      <<"1", "/", "(", "2", "-", "2", ")">>,
      <<"(", "1", "+", "2", ")", "(", "3", ")">>,
      <<"(", "(", "1", "+", "2", ")">>,
      <<"1", "+", "2", ")", "*", "(", "3">>,
      <<"1", ".", "2", ".", "3", "+", "1">>,
      <<"a", "b">> }

Expressions ==
    UNION { [1..k -> ExprChars] : k \in 0..MaxExpr } \cup ExampleExpressions

\* Fractions in lowest terms with a positive denominator.
RECURSIVE GCD(_, _)
GCD(a, b) == IF b = 0 THEN a ELSE GCD(b, a % b)

Fraction(n, d) ==
    LET g == GCD(IF n < 0 THEN -n ELSE n, d)
    IN  IF n = 0 THEN [n |-> 0, d |-> 1] ELSE [n |-> n \div g, d |-> d \div g]

Plus(x, y) == Fraction(x.n * y.d + y.n * x.d, x.d * y.d)

Minus(x, y) == Fraction(x.n * y.d - y.n * x.d, x.d * y.d)

Times(x, y) == Fraction(x.n * y.n, x.d * y.d)

DividedBy(x, y) ==
    IF y.n < 0 THEN Fraction(-(x.n * y.d), x.d * (-y.n))
    ELSE Fraction(x.n * y.d, x.d * y.n)

Negated(x) == [n |-> -x.n, d |-> x.d]

\* The value of a run of decimal digits, and ten to a power.
RECURSIVE DecimalValue(_)
DecimalValue(digits) ==
    IF digits = <<>> THEN 0
    ELSE 10 * DecimalValue(SubSeq(digits, 1, Len(digits) - 1))
           + DigitValue(digits[Len(digits)])

RECURSIVE PowerOfTen(_)
PowerOfTen(k) == IF k = 0 THEN 1 ELSE 10 * PowerOfTen(k - 1)

\* expr[index] with JavaScript's indices from 0 held as positions from 1:
\* beyond the end it is undefined.
CharAt(expr, index) == IF index \in 1..Len(expr) THEN expr[index] ELSE "undefined"

\* The first position from index on whose character is not in chars.
RunEnd(expr, index, chars) ==
    CHOOSE end \in index..(Len(expr) + 1) :
        /\ \A i \in index..(end - 1) : expr[i] \in chars
        /\ CharAt(expr, end) \notin chars

\* parseFloat on a run of digits and dots: the longest leading numeral
\* (digits, then a dot with more digits), or NaN when there is none.
NotANumeral == [nan |-> TRUE, value |-> Fraction(0, 1)]

parseFloat(num) ==
    LET intEnd == RunEnd(num, 1, Digits)
        fracEnd == IF CharAt(num, intEnd) = "." THEN RunEnd(num, intEnd + 1, Digits)
                   ELSE intEnd
        intDigits == SubSeq(num, 1, intEnd - 1)
        fracDigits == SubSeq(num, intEnd + 1, fracEnd - 1)
    IN  IF intDigits = <<>> /\ fracDigits = <<>> THEN NotANumeral
        ELSE [nan |-> FALSE,
              value |-> Fraction(DecimalValue(intDigits) * PowerOfTen(Len(fracDigits))
                                   + DecimalValue(fracDigits),
                                 PowerOfTen(Len(fracDigits)))]

\* What a parsing function leaves: its return value and the shared index,
\* or the error it threw.
Parsed(value, index) == [error |-> "none", value |-> value, index |-> index]

ParseError(error, index) == [error |-> error, value |-> Fraction(0, 1), index |-> index]

parseNumber(expr, index) ==
    LET end == RunEnd(expr, index, Digits \cup {"."})
        result == parseFloat(SubSeq(expr, index, end - 1))
    IN  IF result.nan THEN ParseError("InvalidNumber", end)
        ELSE Parsed(result.value, end)

\* The element of a one-element set.  { F(x) : x \in {e} } evaluates e once,
\* as a local const does, however often F reads x.
Only(S) == CHOOSE x \in S : TRUE

RECURSIVE parseFactor(_, _)
RECURSIVE parseMulDiv_while(_, _)
RECURSIVE parseAddSub_while(_, _)

\* The while loop of parseMulDiv, entered with result and index in `left`.
parseMulDiv_leftToRight(expr, left, op, right) ==
    IF op = "*" THEN Parsed(Times(left.value, right.value), right.index)
    ELSE IF right.value.n = 0 THEN ParseError("DivisionByZero", right.index)
    ELSE Parsed(DividedBy(left.value, right.value), right.index)

parseMulDiv_while(expr, left) ==
    IF left.error # "none" THEN left
    ELSE IF CharAt(expr, left.index) \notin {"*", "/"} THEN left
    ELSE Only({ IF right.error # "none" THEN right
                ELSE Only({ parseMulDiv_while(expr, result) :
                             result \in {parseMulDiv_leftToRight(expr, left,
                                             expr[left.index], right)} }) :
                  right \in {parseFactor(expr, left.index + 1)} })

parseMulDiv(expr, index) ==
    Only({ parseMulDiv_while(expr, left) : left \in {parseFactor(expr, index)} })

\* The while loop of parseAddSub.
parseAddSub_while(expr, left) ==
    IF left.error # "none" THEN left
    ELSE IF CharAt(expr, left.index) \notin {"+", "-"} THEN left
    ELSE Only({ IF right.error # "none" THEN right
                ELSE Only({ parseAddSub_while(expr, result) :
                             result \in {Parsed(IF expr[left.index] = "+"
                                                THEN Plus(left.value, right.value)
                                                ELSE Minus(left.value, right.value),
                                                right.index)} }) :
                  right \in {parseMulDiv(expr, left.index + 1)} })

parseAddSub_noPrecedence(expr, index) ==
    Only({ parseAddSub_while(expr, left) : left \in {parseFactor(expr, index)} })

parseAddSub(expr, index) ==
    Only({ parseAddSub_while(expr, left) : left \in {parseMulDiv(expr, index)} })

parseFactor(expr, index) ==
    IF CharAt(expr, index) = "("
    THEN Only({ IF result.error # "none" THEN result
                ELSE IF CharAt(expr, result.index) # ")"
                THEN ParseError("MissingParenthesis", result.index)
                ELSE Parsed(result.value, result.index + 1) :
                  result \in {parseAddSub(expr, index + 1)} })
    ELSE IF CharAt(expr, index) = "-"
    THEN Only({ IF result.error # "none" THEN result
                ELSE Parsed(Negated(result.value), result.index) :
                  result \in {parseFactor(expr, index + 1)} })
    ELSE IF CharAt(expr, index) = "+"
    THEN parseFactor(expr, index + 1)
    ELSE parseNumber(expr, index)

\* parseExpression: the number, or the error thrown.
parseExpression(expr) ==
    Only({ IF result.error # "none" THEN result
           ELSE IF result.index <= Len(expr)
           THEN ParseError("TrailingCharacters", result.index)
           ELSE result :
             result \in {parseAddSub(expr, 1)} })

\* String.prototype.replace with a character class and the g flag: the
\* characters of the class are removed (Kept: those outside the class are).
Removed(s, class) == SelectSeq(s, LAMBDA c : c \notin class)

Kept(s, class) == SelectSeq(s, LAMBDA c : c \in class)

\* The bracket count of safeEval after the first n characters.
BracketCount(cleanExpr, n) ==
    Cardinality({i \in 1..n : cleanExpr[i] = "("})
      - Cardinality({i \in 1..n : cleanExpr[i] = ")"})

\* safeEval: [type |-> "number", value] or [type |-> "error", error], the
\* error being the one its catch block wraps.
NumberResult(value) == [type |-> "number", value |-> value, error |-> "none"]

ErrorResult(error) == [type |-> "error", value |-> Fraction(0, 1), error |-> error]

safeEval(expression) ==
    LET cleanExpr == Removed(expression, {" "})
        result == parseExpression(cleanExpr)
    IN  IF \/ \E n \in 1..Len(cleanExpr) : BracketCount(cleanExpr, n) < 0
           \/ BracketCount(cleanExpr, Len(cleanExpr)) # 0
        THEN ErrorResult("UnbalancedParentheses")
        ELSE IF result.error # "none" THEN ErrorResult(result.error)
        ELSE NumberResult(result.value)

\* calculatorHandler: the expression is stripped of every character outside
\* [0-9+\-*/().\s] and handed to safeEval.
calculatorHandler_call ==
    /\ calc.pc = "idle"
    /\ LET safeExpression ==
               Kept(calc.expression,
                    Digits \cup {"+", "-", "*", "/", "(", ")", ".", " "})
       IN  calc' = [calc EXCEPT
                      !.pc = "returned",
                      !.safeExpression = safeExpression,
                      !.result = IF safeExpression = <<>>
                                 THEN ErrorResult("InvalidExpression")
                                 ELSE safeEval(safeExpression)]
    /\ UNCHANGED <<fileInfo, completion, refreshVars, toolRegistry, toolCall, poolVars, serverVars,
                   requestVars>>

(***************************************************************************)
(* Specification of the pool manager: discovery passes, health checks and  *)
(* selections interleave.                                                  *)
(***************************************************************************)
InitPool ==
    /\ modelPool = EmptyPool
    /\ modelCache = CacheOf(modelPool)
    /\ pass = NoPass
    /\ selected = [call |-> 0, model |-> None]
    /\ crit = NoCriteria
    /\ ServerIdle({MaxCap})
    /\ ToolsRegistered
    /\ HandlersIdle

NextPool ==
    \/ discoverAllModels_call("timer")
    \/ discoverAllModels_enumerationFails("timer")
    \/ \E allModels \in ProviderLists(PoolIds, MaxModels) :
          discoverAllModels_enumerated("timer", allModels)
    \/ \E ok \in BOOLEAN, rt \in PoolResponseTimes : discoverAllModels_probe("timer", ok, rt)
    \/ \E healthy \in [PoolIds -> BOOLEAN] : performHealthChecks(healthy)
    \/ \E c \in RequestCriteria : SelectOptimalModel(c)

SpecPool == InitPool /\ [][NextPool]_vars

(***************************************************************************)
(* Specification of the selector as a function: a pool that discovery and  *)
(* health checks can produce, one criteria record, one call.               *)
(***************************************************************************)
\* The capabilities a pass pushes for the list l, probe i measuring rts[i].
ProbeAll(l, rts) == [i \in 1..Len(l) |-> analyzeModelCapabilities(l[i], rts[i])]

\* The pool after a health check that read healthy[id] for each model.
HealthChecked(pool, healthy) ==
    [pool EXCEPT !.primary   = SetHealth(@, healthy),
                 !.secondary = SetHealth(@, healthy),
                 !.fallback  = SetHealth(@, healthy)]

SelectPools ==
    { HealthChecked(updateModelPool(ProbeAll(l, rts)), healthy) :
        l \in ProviderLists(ModelIds, MaxPool),
        rts \in [1..MaxPool -> ResponseTimes],
        healthy \in [ModelIds -> BOOLEAN] }

InitSelect ==
    /\ modelPool \in SelectPools
    /\ modelCache = CacheOf(modelPool)
    /\ pass = NoPass
    /\ selected = [call |-> 0, model |-> None]
    /\ crit \in AllCriteria
    /\ ServerIdle({MaxCap})
    /\ ToolsRegistered
    /\ HandlersIdle

NextSelect == SelectOptimalModel(crit)

SpecSelect == InitSelect /\ [][NextSelect]_vars

(***************************************************************************)
(* Specification of one request: every request shape, every pool of        *)
(* RequestPools, every provider stream of up to MaxFragments fragments,    *)
(* with timeouts, shutdown and cap changes interleaved.                    *)
(***************************************************************************)
RequestLists ==
    { <<>>,
      <<[id |-> "gpt-4o", maxInputTokens |-> 128000]>>,
      <<[id |-> "gpt-4", maxInputTokens |-> 4000],
        [id |-> "o1", maxInputTokens |-> 4000]>>,
      <<[id |-> "gpt-4o", maxInputTokens |-> 128000],
        [id |-> "gpt-4", maxInputTokens |-> 128000]>> }

RequestPools ==
    { updateModelPool(ProbeAll(l, [i \in 1..Len(l) |-> 0])) : l \in RequestLists }

RequestBodies ==
    ChatBodies({"auto-select", "gpt-4"}, BOOLEAN, BOOLEAN, BOOLEAN, BOOLEAN,
               {10, 5000}) \cup BadBodies

\* The steps of the handler of request r up to the provider's response, its
\* inputs drawn from the given sets.
PipelineSteps(r, paths, bodies, answers, outcomes) ==
    \/ \E method \in Methods, path \in paths : handleRequest(r, method, path)
    \/ \E body \in bodies : handleChatCompletions_body(r, body)
    \/ \E answer \in answers : handleChatCompletions_access(r, answer)
    \/ \E outcome \in outcomes : handleChatCompletions_response(r, outcome)
    \/ \E thrown \in {"none", "Error"} \cup (outcomes \ {"response"}) :
          handleNonStreamingResponse(r, thrown)
    \/ handleRequestTimeout(r)

\* The steps of the handler of request r while it streams, the provider
\* yielding at most n fragments drawn from the given set.
StreamSteps(r, fragments, n) ==
    \/ \E chunk \in fragments : handleStreamingResponse_fragment(r, chunk, n)
    \/ handleStreamingResponse_completes(r)
    \/ handleStreamingResponse_throws(r)

ServerSteps ==
    \/ start
    \/ stop
    \/ stop_closed
    \/ \E cap \in 1..MaxCap : onConfigurationChanged(cap)

InitRequest ==
    /\ modelPool \in RequestPools
    /\ modelCache = CacheOf(modelPool)
    /\ pass = NoPass
    /\ selected = [call |-> 0, model |-> None]
    /\ crit = NoCriteria
    /\ ServerIdle(1..MaxCap)
    /\ ToolsRegistered
    /\ HandlersIdle

NextRequest ==
    \/ PipelineSteps(1, Paths, RequestBodies, AccessAnswers, {"response"} \cup LMErrors)
    \/ StreamSteps(1, Fragments, MaxFragments)
    \/ ServerSteps

SpecRequest == InitRequest /\ [][NextRequest]_vars

(***************************************************************************)
(* Specification of the server: MaxReqs requests in flight together, one   *)
(* pool, chat completions that are not streamed and whose provider         *)
(* answers, with timeouts, shutdown and cap changes interleaved.           *)
(***************************************************************************)
ServerPool ==
    updateModelPool(ProbeAll(<<[id |-> "gpt-4o", maxInputTokens |-> 128000]>>,
                             <<0>>))

ServerBodies ==
    ChatBodies({"auto-select"}, {FALSE}, {FALSE}, {FALSE}, {FALSE}, {10})
        \cup { [NoBody EXCEPT !.kind = "malformed"] }

InitServer ==
    /\ modelPool = ServerPool
    /\ modelCache = CacheOf(modelPool)
    /\ pass = NoPass
    /\ selected = [call |-> 0, model |-> None]
    /\ crit = NoCriteria
    /\ ServerIdle(1..MaxCap)
    /\ ToolsRegistered
    /\ HandlersIdle

NextServer ==
    \/ \E r \in Reqs : PipelineSteps(r, {"/v1/chat/completions"}, ServerBodies,
                                     {"models"}, {"response"})
    \/ ServerSteps

SpecServer == InitServer /\ [][NextServer]_vars

(***************************************************************************)
(* Specification of the concurrency slots: the server of SpecServer under  *)
(* one cap that no configuration change touches, with one request more     *)
(* than the cap admits, timeouts and shutdown interleaved.                 *)
(***************************************************************************)
InitSlots ==
    /\ modelPool = ServerPool
    /\ modelCache = CacheOf(modelPool)
    /\ pass = NoPass
    /\ selected = [call |-> 0, model |-> None]
    /\ crit = NoCriteria
    /\ ServerIdle({MaxCap})
    /\ ToolsRegistered
    /\ HandlersIdle

NextSlots ==
    \/ \E r \in Reqs : PipelineSteps(r, {"/v1/chat/completions"}, ServerBodies,
                                     {"models"}, {"response"})
    \/ start
    \/ stop
    \/ stop_closed

SpecSlots == InitSlots /\ [][NextSlots]_vars

(***************************************************************************)
(* Specification of progress: the server of SpecSlots with one request     *)
(* fewer, chat completions streamed and not, a provider that answers or    *)
(* throws and whose stream ends or throws, under the assumption that a     *)
(* handler that can go on does: every await of a handler settles (the      *)
(* body arrives, the provider's call returns or throws, its stream yields, *)
(* ends or throws).  Nothing is assumed about timeouts and shutdown.       *)
(***************************************************************************)
LiveReqs == 1..(MaxReqs - 1)

LiveBodies ==
    ChatBodies({"auto-select"}, BOOLEAN, {FALSE}, {FALSE}, {FALSE}, {10})
        \cup { [NoBody EXCEPT !.kind = "malformed"] }

HandlerSteps(r) ==
    \/ PipelineSteps(r, {"/v1/chat/completions"}, LiveBodies, {"models"},
                     {"response", "Error"})
    \/ StreamSteps(r, {"Hel"}, 1)

InitLive == InitSlots

NextLive ==
    \/ \E r \in LiveReqs : HandlerSteps(r)
    \/ start
    \/ stop
    \/ stop_closed

SpecLive == InitLive /\ [][NextLive]_vars /\ WF_vars(\E r \in LiveReqs : HandlerSteps(r))

(***************************************************************************)
(* Specification of validation: one chat completion whose body is drawn    *)
(* from requests at and around every limit of the validator, served from   *)
(* one of the pools of SpecRequest by a provider that answers.             *)
(***************************************************************************)
\* n copies of x in a row.
Repeat(x, n) == [i \in 1..n |-> x]

GoodMessage == MessageOf("user", StringContent(40, 0), FALSE)

GoodBody == [NoBody EXCEPT !.kind = "json", !.messages = Messages(<<GoodMessage>>)]

\* Message contents at and around the limits of validateEnhancedMessage and
\* validateMultimodalContent.
ValidateContents ==
    { StringContent(0, 0), StringContent(1, 0),
      StringContent(LIMITS.MAX_MESSAGE_LENGTH, 0),
      StringContent(LIMITS.MAX_MESSAGE_LENGTH + 1, 0),
      OtherContent,
      ArrayContent(<<>>),
      ArrayContent(<<TextPart(0, 0)>>),
      ArrayContent(<<TextPart(LIMITS.MAX_MESSAGE_LENGTH + 1, 0)>>),
      ArrayContent(<<OtherPart("not-object")>>),
      ArrayContent(<<OtherPart("audio")>>),
      ArrayContent(<<TextPart(40, 0), ImagePart("no-image_url", "none")>>),
      ArrayContent(<<TextPart(40, 0), ImagePart("no-url", "none")>>),
      ArrayContent(<<TextPart(40, 0), ImagePart("ftp://", "png")>>),
      ArrayContent(<<TextPart(40, 0), ImagePart("https://", "exe")>>),
      ArrayContent(<<TextPart(40, 0), ImagePart("data:image/", "png")>>),
      ArrayContent(<<ImagePart("./", "webp"), TextPart(0, 0)>>),
      ArrayContent(Repeat(ImagePart("https://", "png"), 10)),
      ArrayContent(Repeat(ImagePart("https://", "png"), 11)),
      ArrayContent(Repeat(ImagePart("https://", "png"), 11) \o <<OtherPart("audio")>>) }

ValidateMessages ==
    { [type |-> "undefined", items |-> <<>>],
      Messages(<<>>),
      Messages(Repeat(GoodMessage, LIMITS.MAX_MESSAGES_PER_REQUEST)),
      Messages(Repeat(GoodMessage, LIMITS.MAX_MESSAGES_PER_REQUEST + 1)),
      Messages(<<NotAMessage>>),
      Messages(<<MessageOf("tool", StringContent(40, 0), FALSE)>>),
      Messages(<<MessageOf("system", StringContent(40, 0), FALSE), GoodMessage>>),
      Messages(<<GoodMessage, MessageOf("function", StringContent(0, 0), FALSE)>>),
      Messages(<<MessageOf("assistant", StringContent(0, 0), FALSE),
                 MessageOf("tool", StringContent(40, 0), FALSE)>>) }
    \cup { Messages(<<MessageOf("user", c, FALSE)>>) : c \in ValidateContents }
    \cup { Messages(<<GoodMessage, MessageOf("user", c, FALSE)>>) :
             c \in { ArrayContent(Repeat(ImagePart("https://", "png"), 11)),
                     ArrayContent(<<TextPart(0, 0)>>) } }

\* Values of temperature, top_p, a penalty, n and max_tokens at and around
\* their limits.
ValidateNumbers ==
    [ temperature |-> {Null, NotANumber, Num(-1), Num(0), Num(7), Num(20), Num(21)},
      top_p       |-> {Null, NotANumber, Num(-1), Num(0), Num(10), Num(11)},
      penalty     |-> {Null, NotANumber, Num(-21), Num(-20), Num(20), Num(21)},
      n           |-> {Null, NotANumber, Num(0), Num(10), Num(15), Num(100), Num(110)},
      max_tokens  |-> {Null, NotANumber, Num(-10), Num(0), Num(5), Num(10),
                       Num(20000), Num(20010), Num(40960), Num(40970)} ]

ValidateStops ==
    { [type |-> "string", length |-> 0, strings |-> TRUE],
      [type |-> "number", length |-> 0, strings |-> TRUE],
      StopArray(0, TRUE), StopArray(4, TRUE), StopArray(5, TRUE),
      StopArray(2, FALSE), StopArray(5, FALSE) }

ValidateBodies ==
    {GoodBody}
    \cup { [GoodBody EXCEPT !.messages = m] : m \in ValidateMessages }
    \cup { [GoodBody EXCEPT !.temperature = v] : v \in ValidateNumbers.temperature }
    \cup { [GoodBody EXCEPT !.top_p = v] : v \in ValidateNumbers.top_p }
    \cup { [GoodBody EXCEPT !.presence_penalty = v] : v \in ValidateNumbers.penalty }
    \cup { [GoodBody EXCEPT !.frequency_penalty = v] : v \in ValidateNumbers.penalty }
    \cup { [GoodBody EXCEPT !.n = v] : v \in ValidateNumbers.n }
    \cup { [GoodBody EXCEPT !.stop = v] : v \in ValidateStops }
    \cup { [GoodBody EXCEPT !.model = m, !.max_tokens = v] :
             m \in {"", "gpt-4", "gpt-4o", "o1"}, v \in ValidateNumbers.max_tokens }
    \cup { [GoodBody EXCEPT !.messages = Messages(<<>>), !.temperature = Num(21)],
           [GoodBody EXCEPT !.temperature = Num(21), !.n = Num(0)],
           [GoodBody EXCEPT !.n = Num(110), !.top_p = Num(11),
                            !.stop = StopArray(5, TRUE)],
           [GoodBody EXCEPT !.frequency_penalty = Num(21), !.presence_penalty = Num(-21)],
           [GoodBody EXCEPT !.max_tokens = Num(0), !.stop = StopArray(5, TRUE)] }

InitValidate ==
    /\ modelPool \in RequestPools
    /\ modelCache = CacheOf(modelPool)
    /\ pass = NoPass
    /\ selected = [call |-> 0, model |-> None]
    /\ crit = NoCriteria
    /\ ServerIdle({MaxCap})
    /\ ToolsRegistered
    /\ HandlersIdle

NextValidate ==
    \/ start
    \/ PipelineSteps(1, {"/v1/chat/completions"}, ValidateBodies, {"models"},
                     {"response"})

SpecValidate == InitValidate /\ [][NextValidate]_vars

(***************************************************************************)
(* Specification of tool execution: calls of executeToolCall one after     *)
(* another on the built-in tools and on an unknown one, with every kind of *)
(* argument string, while tools are enabled and disabled.                  *)
(***************************************************************************)
InitTool ==
    /\ modelPool = EmptyPool
    /\ modelCache = CacheOf(modelPool)
    /\ pass = NoPass
    /\ selected = [call |-> 0, model |-> None]
    /\ crit = NoCriteria
    /\ ServerIdle({MaxCap})
    /\ ToolsRegistered
    /\ HandlersIdle

NextTool ==
    \/ \E toolName \in ToolNames, arguments \in ToolArguments :
          executeToolCall_call(toolName, arguments)
    \/ \E handlerOutcome \in HandlerOutcomes, handlerTime \in HandlerTimes,
          timerFirst \in BOOLEAN :
          executeToolCall_settles(handlerOutcome, handlerTime, timerFirst)
    \/ executeToolCall_returned
    \/ \E toolId \in ToolNames, enabled \in BOOLEAN : setToolEnabled(toolId, enabled)
    \/ \E outcome \in HandlerOutcomes : handler_settlesAfterTimeout(outcome)
    \/ \E id \in ToolNames : registerTool_call(id)

SpecTool == InitTool /\ [][NextTool]_vars

(***************************************************************************)
(* Specification of the file inspector: one call of fileInfoHandler on     *)
(* every path of up to MaxPath characters (and on two long ones, and on    *)
(* values that are no strings), in either working directory, with every    *)
(* operation.                                                              *)
(***************************************************************************)
InitPath ==
    /\ modelPool = EmptyPool
    /\ modelCache = CacheOf(modelPool)
    /\ pass = NoPass
    /\ selected = [call |-> 0, model |-> None]
    /\ crit = NoCriteria
    /\ ServerIdle({MaxCap})
    /\ ToolsRegistered
    /\ calc = NoCalc
    /\ completion = NoCompletion
    /\ RefreshIdle
    /\ requestOptions = NoRequestOptions
    /\ fileInfo \in { [NoFileInfo EXCEPT !.path = filePath, !.cwd = cwd] :
                         filePath \in PathParameters, cwd \in WorkingDirectories }

NextPath ==
    \/ \E operation \in Operations : fileInfoHandler_call(operation)
    \/ \E resolves \in BOOLEAN : fileInfoHandler_fs(resolves)

SpecPath == InitPath /\ [][NextPath]_vars

(***************************************************************************)
(* Specification of the calculator: one call of calculatorHandler on every *)
(* expression of up to MaxExpr characters and on longer examples.          *)
(***************************************************************************)
InitCalc ==
    /\ modelPool = EmptyPool
    /\ modelCache = CacheOf(modelPool)
    /\ pass = NoPass
    /\ selected = [call |-> 0, model |-> None]
    /\ crit = NoCriteria
    /\ ServerIdle({MaxCap})
    /\ ToolsRegistered
    /\ fileInfo = NoFileInfo
    /\ completion = NoCompletion
    /\ RefreshIdle
    /\ requestOptions = NoRequestOptions
    /\ calc \in { [NoCalc EXCEPT !.expression = expression] : expression \in Expressions }

NextCalc == calculatorHandler_call

SpecCalc == InitCalc /\ [][NextCalc]_vars

(***************************************************************************)
(* The non-streaming completion response                                   *)
(***************************************************************************)
MaxPrompt == 2

Converters == {"part_002", "part_003"}

ContentLengths == {0, 1, 4, 5, 36, 37, 400}

\* The texts of a prompt's messages and of a collected completion: their
\* length and their number of newline, carriage-return and tab characters.
Texts == { StringContent(length, controls) :
             length \in ContentLengths, controls \in {0, 1} }

Prompts ==
    UNION { [1..n -> { [role |-> "user", content |-> t, tool_calls |-> FALSE] :
                          t \in Texts }] : n \in 1..MaxPrompt }

\* The length of Number.prototype.toString() of a count.
RECURSIVE toString(_)
toString(number) ==
    IF number < 10 THEN 1 ELSE 1 + toString(number \div 10)

\* The usage of Converter.createCompletionResponse, in either version.
createCompletionResponse(converter, content, context) ==
    [prompt_tokens |->
        IF converter = "part_002"
        THEN context.estimatedTokens
        ELSE estimateTokens(toString(context.estimatedTokens), 0),
     completion_tokens |-> estimateTokens(content.length, content.controls),
     total_tokens |-> context.estimatedTokens
                        + estimateTokens(content.length, content.controls)]

\* handleNonStreamingResponse from the collected text to the response.
handleNonStreamingResponse_respond ==
    /\ completion.pc = "collected"
    /\ completion' =
         [completion EXCEPT
            !.pc = "responded",
            !.usage = createCompletionResponse(completion.converter,
                                               completion.content,
                                               [estimatedTokens |-> completion.estimatedTokens])]
    /\ UNCHANGED <<fileInfo, calc, refreshVars, toolRegistry, toolCall, poolVars, serverVars,
                   requestVars>>

(***************************************************************************)
(* Specification of the usage report: one non-streaming response for every *)
(* prompt of up to MaxPrompt messages and every collected text, built by   *)
(* either version of the converter.                                        *)
(***************************************************************************)
InitUsage ==
    /\ modelPool = EmptyPool
    /\ modelCache = CacheOf(modelPool)
    /\ pass = NoPass
    /\ selected = [call |-> 0, model |-> None]
    /\ crit = NoCriteria
    /\ ServerIdle({MaxCap})
    /\ ToolsRegistered
    /\ fileInfo = NoFileInfo
    /\ calc = NoCalc
    /\ RefreshIdle
    /\ requestOptions = NoRequestOptions
    /\ completion \in
         { [NoCompletion EXCEPT
              !.pc = "collected",
              !.converter = converter,
              !.messages = messages,
              !.content = [length |-> text.length, controls |-> text.controls],
              !.estimatedTokens =
                  Sum([i \in DOMAIN messages |-> MessageTokens(messages[i])])] :
             converter \in Converters, messages \in Prompts, text \in Texts }

NextUsage == handleNonStreamingResponse_respond

SpecUsage == InitUsage /\ [][NextUsage]_vars

(***************************************************************************)
(* POST /v1/models/refresh                                                 *)
(***************************************************************************)
\* The pool chat completions select from and GET /v1/models lists: the pool
\* of the discovery service the RequestHandler constructs for itself.
ConsultedPool == modelPool

\* handleModelRefresh is called and its discoverAllModels() awaits the
\* enumeration.
handleModelRefresh_call ==
    /\ refresh.pc = "idle"
    /\ refresh' = [refresh EXCEPT !.pc = "enumerating"]
    /\ UNCHANGED <<serverModelPool, fileInfo, calc, completion, requestOptions, toolRegistry, toolCall,
                   poolVars, serverVars, requestVars>>

\* Mutation of handleModelRefresh_enumerationFails: the failed pass resets
\* the pool.
handleModelRefresh_enumerationFails_resetsPool ==
    /\ refresh.pc = "enumerating"
    /\ refresh' = [refresh EXCEPT !.pc = "responded", !.status = 500]
    /\ serverModelPool' = EmptyPool
    /\ UNCHANGED <<fileInfo, calc, completion, requestOptions, toolRegistry, toolCall,
                   poolVars, serverVars, requestVars>>

\* The enumeration fails: discoverAllModels throws and the catch answers 500.
handleModelRefresh_enumerationFails ==
    /\ refresh.pc = "enumerating"
    /\ refresh' = [refresh EXCEPT !.pc = "responded", !.status = 500]
    /\ UNCHANGED <<serverModelPool, fileInfo, calc, completion, requestOptions, toolRegistry, toolCall,
                   poolVars, serverVars, requestVars>>

\* The enumeration resolves with allModels; with no model the pass ends at
\* once and the handler answers.
handleModelRefresh_enumerated(allModels) ==
    /\ refresh.pc = "enumerating"
    /\ IF allModels = <<>>
       THEN /\ serverModelPool' = updateModelPool(<<>>)
            /\ refresh' = [refresh EXCEPT !.pc = "responded", !.status = 200,
                                          !.modelCount = 0]
       ELSE /\ refresh' = [refresh EXCEPT !.pc = "probing", !.allModels = allModels,
                                          !.next = 1]
            /\ UNCHANGED serverModelPool
    /\ UNCHANGED <<fileInfo, calc, completion, requestOptions, toolRegistry, toolCall, poolVars,
                   serverVars, requestVars>>

\* One iteration of the probing loop of the pass; after the last one
\* updateModelPool replaces the pool of the server's own discovery service
\* and the handler answers with models.length.
handleModelRefresh_probe(ok, rt) ==
    /\ refresh.pc = "probing"
    /\ LET h          == refresh.allModels[refresh.next]
           discovered == IF ok
                         THEN Append(refresh.discoveredModels, analyzeModelCapabilities(h, rt))
                         ELSE refresh.discoveredModels
           last       == refresh.next = Len(refresh.allModels)
       IN  /\ serverModelPool' = PoolAfterProbe(serverModelPool, discovered, last)
           /\ refresh' = IF last
                         THEN [refresh EXCEPT !.pc = "responded", !.status = 200,
                                              !.discoveredModels = discovered,
                                              !.modelCount = Len(discovered)]
                         ELSE [refresh EXCEPT !.next = @ + 1,
                                              !.discoveredModels = discovered]
    /\ UNCHANGED <<fileInfo, calc, completion, requestOptions, toolRegistry, toolCall, poolVars,
                   serverVars, requestVars>>

\* The next refresh request arrives.
handleModelRefresh_next ==
    /\ refresh.pc = "responded"
    /\ refresh' = NoRefresh
    /\ UNCHANGED <<serverModelPool, fileInfo, calc, completion, requestOptions, toolRegistry, toolCall,
                   poolVars, serverVars, requestVars>>

(***************************************************************************)
(* Specification of the routing criteria: the context and the criteria     *)
(* handleChatCompletions builds from a validated request, for requests     *)
(* that name a model or not, stream or not, carry an image, tool calls, a  *)
(* functions list or a tools list or not, over several prompt sizes.       *)
(***************************************************************************)
CriteriaBodies ==
    { [b EXCEPT !.tools = t] :
        b \in ChatBodies({"auto-select", "gpt-4o", "gpt-4"}, BOOLEAN, BOOLEAN, BOOLEAN,
                         BOOLEAN, {0, 1, 1000}),
        t \in BOOLEAN }

\* handleChatCompletions from the validated request to the call of
\* selectOptimalModel: createEnhancedContext and the selectionCriteria
\* literal.
handleChatCompletions_criteria(r, body) ==
    /\ ctx[r] = NoCtx
    /\ ctx' = [ctx EXCEPT ![r] = createEnhancedContext(body)]
    /\ crit' = selectionCriteria(body, createEnhancedContext(body))
    /\ UNCHANGED <<modelPool, modelCache, pass, selected, serverVars, pc, route, stages, res, sends,
                   sentTo, fail, strm, toolVars>>

InitCriteria ==
    /\ modelPool = EmptyPool
    /\ modelCache = CacheOf(modelPool)
    /\ pass = NoPass
    /\ selected = [call |-> 0, model |-> None]
    /\ crit = NoCriteria
    /\ ServerIdle({MaxCap})
    /\ ToolsRegistered
    /\ HandlersIdle

NextCriteria == \E body \in CriteriaBodies : handleChatCompletions_criteria(1, body)

SpecCriteria == InitCriteria /\ [][NextCriteria]_vars

(***************************************************************************)
(* Specification of the tools of a request: the pipeline prepares the      *)
(* tools of requests whose functions are drawn from the tool names, for    *)
(* selected models with and without tool support, while tools are          *)
(* registered, enabled and disabled.                                       *)
(***************************************************************************)
\* Most functions a request carries.
MaxFunctions == 2

\* The function lists of a request, by the names of the functions.
FunctionLists == UNION { [1..n -> ToolNames] : n \in 0..MaxFunctions }

\* FunctionCallService.convertFunctionsToTools: the functions whose name has
\* an enabled entry in the registry, in their order; the others are logged
\* and skipped.
convertFunctionsToTools_ignoresEnabled(registry, functions) ==
    SelectSeq(functions, LAMBDA name : name \in DOMAIN registry)

convertFunctionsToTools(registry, functions) ==
    SelectSeq(functions,
              LAMBDA name : name \in DOMAIN registry /\ registry[name].isEnabled)

\* handleChatCompletions from the preparation of the tools to the call of
\* sendRequest, for a selected model and the functions and tools of the
\* request.
handleChatCompletions_prepareTools(supportsTools, functions, hasTools) ==
    LET vsCodeTools ==
            IF supportsTools /\ (Len(functions) > 0 \/ hasTools)
            THEN convertFunctionsToTools(toolRegistry, functions)
            ELSE <<>>
    IN  /\ requestOptions.pc = "idle"
        /\ requestOptions' =
              [pc |-> "sendRequest", supportsTools |-> supportsTools,
               functions |-> functions, hasTools |-> hasTools,
               vsCodeTools |-> vsCodeTools,
               tools |-> IF Len(vsCodeTools) > 0
                         THEN [defined |-> TRUE, value |-> vsCodeTools]
                         ELSE [defined |-> FALSE, value |-> <<>>]]
        /\ UNCHANGED <<toolRegistry, toolCall, fileInfo, calc, completion,
                       serverModelPool, refresh, poolVars, serverVars, requestVars>>

\* sendRequest is called with the options; the next request is awaited.
handleChatCompletions_sendRequest ==
    /\ requestOptions.pc = "sendRequest"
    /\ requestOptions' = NoRequestOptions
    /\ UNCHANGED <<toolRegistry, toolCall, fileInfo, calc, completion,
                   serverModelPool, refresh, poolVars, serverVars, requestVars>>

InitTools ==
    /\ modelPool = EmptyPool
    /\ modelCache = CacheOf(modelPool)
    /\ pass = NoPass
    /\ selected = [call |-> 0, model |-> None]
    /\ crit = NoCriteria
    /\ ServerIdle({MaxCap})
    /\ ToolsRegistered
    /\ HandlersIdle

NextTools ==
    \/ \E id \in ToolNames : registerTool_call(id)
    \/ \E toolId \in ToolNames, enabled \in BOOLEAN : setToolEnabled(toolId, enabled)
    \/ \E supportsTools \in BOOLEAN, functions \in FunctionLists, hasTools \in BOOLEAN :
          handleChatCompletions_prepareTools(supportsTools, functions, hasTools)
    \/ handleChatCompletions_sendRequest

SpecTools == InitTools /\ [][NextTools]_vars

(***************************************************************************)
(* Specification of probing: discovery passes over one model each, whose   *)
(* maxInputTokens is drawn from values on both sides of the point where    *)
(* its half reaches 4096, odd ones among them.                             *)
(***************************************************************************)
ProbeTokenValues == {0, 1, 2, 3, 4000, 8191, 8192, 8193, 128000}

ProbeLists ==
    {<<>>} \cup { <<[id |-> id, maxInputTokens |-> tokens]>> :
                    id \in {"gpt-4o", "o1"}, tokens \in ProbeTokenValues }

InitProbe ==
    /\ modelPool = EmptyPool
    /\ modelCache = CacheOf(modelPool)
    /\ pass = NoPass
    /\ selected = [call |-> 0, model |-> None]
    /\ crit = NoCriteria
    /\ ServerIdle({MaxCap})
    /\ ToolsRegistered
    /\ HandlersIdle

NextProbe ==
    \/ discoverAllModels_call("timer")
    \/ discoverAllModels_enumerationFails("timer")
    \/ \E allModels \in ProbeLists : discoverAllModels_enumerated("timer", allModels)
    \/ \E ok \in BOOLEAN, rt \in ResponseTimes : discoverAllModels_probe("timer", ok, rt)

SpecProbe == InitProbe /\ [][NextProbe]_vars

(***************************************************************************)
(* Specification of refresh: the passes of the refresh timer and of        *)
(* initialization overlap with each other, with health checks and with     *)
(* selections.                                                             *)
(***************************************************************************)
RefreshCriteria ==
    { Criteria({}, 0, FALSE, tools, {}, {}, "capabilities") : tools \in BOOLEAN }

InitRefresh ==
    /\ modelPool = EmptyPool
    /\ modelCache = CacheOf(modelPool)
    /\ pass = NoPass
    /\ selected = [call |-> 0, model |-> None]
    /\ crit = NoCriteria
    /\ ServerIdle({MaxCap})
    /\ ToolsRegistered
    /\ HandlersIdle

NextRefresh ==
    \/ \E p \in Passes : discoverAllModels_call(p)
    \/ \E p \in Passes : discoverAllModels_enumerationFails(p)
    \/ \E p \in Passes, allModels \in RequestLists : discoverAllModels_enumerated(p, allModels)
    \/ \E p \in Passes, ok \in BOOLEAN, rt \in PoolResponseTimes :
          discoverAllModels_probe(p, ok, rt)
    \/ \E healthy \in [PoolIds -> BOOLEAN] : performHealthChecks(healthy)
    \/ \E c \in RefreshCriteria : SelectOptimalModel(c)

SpecRefresh == InitRefresh /\ [][NextRefresh]_vars

(***************************************************************************)
(* Specification of the manual refresh: refresh requests, the passes of    *)
(* the RequestHandler's own discovery service and selections, interleaved. *)
(***************************************************************************)
InitManualRefresh ==
    /\ modelPool = EmptyPool
    /\ modelCache = CacheOf(modelPool)
    /\ pass = NoPass
    /\ selected = [call |-> 0, model |-> None]
    /\ crit = NoCriteria
    /\ ServerIdle({MaxCap})
    /\ ToolsRegistered
    /\ HandlersIdle

NextManualRefresh ==
    \/ handleModelRefresh_call
    \/ handleModelRefresh_enumerationFails
    \/ \E allModels \in RequestLists : handleModelRefresh_enumerated(allModels)
    \/ \E ok \in BOOLEAN, rt \in PoolResponseTimes : handleModelRefresh_probe(ok, rt)
    \/ handleModelRefresh_next
    \/ discoverAllModels_call("initialize")
    \/ discoverAllModels_enumerationFails("initialize")
    \/ \E allModels \in RequestLists : discoverAllModels_enumerated("initialize", allModels)
    \/ \E ok \in BOOLEAN, rt \in PoolResponseTimes :
          discoverAllModels_probe("initialize", ok, rt)
    \/ \E c \in RefreshCriteria : SelectOptimalModel(c)

SpecManualRefresh == InitManualRefresh /\ [][NextManualRefresh]_vars

(***************************************************************************)
(* Properties of the selector                                              *)
(***************************************************************************)
Elems(seq) == { seq[i] : i \in 1..Len(seq) }
TierIds(tier) == { tier[i].id : i \in 1..Len(tier) }

\* C8: whenever a selection returns (after any discovery passes, health
\* checks and earlier selections), the model it returns is in neither the
\* fallback nor the unhealthy tier of the pool it was selected from.
C8_NeverFallbackOrUnhealthy ==
    [][ selected' # selected =>
          \/ selected'.model = None
          \/ /\ selected'.model[1].id \notin TierIds(modelPool'.fallback)
             /\ selected'.model[1].id \notin TierIds(modelPool'.unhealthy)
             /\ selected'.model[1] \notin Elems(modelPool'.fallback \o modelPool'.unhealthy)
      ]_vars

\* C8's case: a selection has returned a model of a pool whose fallback
\* tier holds a healthy model.
C8_Witness ==
    /\ selected.call # 0
    /\ selected.model # None
    /\ selected.model[1] \in Elems(AvailableModels(modelPool))
    /\ \E m \in Elems(modelPool.fallback) : m.isHealthy

\* The conditions of C9 on one model, as the claim words them.
C9_Eligible(m, c) ==
    /\ m.isHealthy
    /\ \A flag \in c.requiredCapabilities : flag \in DOMAIN m /\ m[flag] = TRUE
    /\ m.maxInputTokens >= c.minContextTokens
    /\ (c.requiresVision => m.supportsVision)
    /\ (c.requiresTools => m.supportsTools)
    /\ m.id \notin c.excludeModels

\* C9: select(criteria) returns none exactly when no model of primary or
\* secondary is healthy, has every required flag, has maxInputTokens >=
\* minContextTokens, supports vision and tools when required and is not
\* excluded; otherwise the model returned is a model of primary or secondary
\* that satisfies all of these.
C9_NoneIffNoEligibleModel ==
    selected.call # 0 =>
        LET pooled == Elems(modelPool.primary) \cup Elems(modelPool.secondary)
        IN  /\ (selected.model = None) <=> ~(\E m \in pooled : C9_Eligible(m, crit))
            /\ selected.model # None =>
                  /\ selected.model[1] \in pooled
                  /\ C9_Eligible(selected.model[1], crit)

\* C9's case: a call returned none although primary or secondary holds models,
\* one of them unhealthy but otherwise acceptable.
C9_Witness ==
    /\ selected.call # 0
    /\ selected.model = None
    /\ \E m \in Elems(modelPool.primary) \cup Elems(modelPool.secondary) :
          ~m.isHealthy /\ C9_Eligible([m EXCEPT !.isHealthy = TRUE], crit)

\* The capability score of C10, times 1000; no model has a success rate, so
\* "successRate or 0.5" is 0.5 (500 thousandths).
C10_Score(m) ==
      m.maxInputTokens
    + 1000 * ( (IF m.supportsVision THEN 50 ELSE 0)
             + (IF m.supportsTools THEN 30 ELSE 0)
             + (IF m.supportsMultimodal THEN 20 ELSE 0) )
    + 100 * 500

\* a ranks strictly before b under the sort key of C10.
C10_Before(a, b, sortBy) ==
    CASE sortBy = "performance" -> a.responseTime < b.responseTime
      [] sortBy = "tokens"      -> a.maxInputTokens > b.maxInputTokens
      [] sortBy = "health"      -> FALSE
      [] OTHER                  -> C10_Score(a) > C10_Score(b)

\* C10: every call returns the first candidate under the requested sort key:
\* no candidate ranks strictly before it, and every candidate that precedes
\* it in pool order ranks strictly after it (ties keep pool order).  A
\* repeated call on the same pool with the same criteria returns it again.
C10_FirstUnderSortKey ==
    (selected.call # 0 /\ selected.model # None) =>
        LET cands == CandidateModels(modelPool, crit)
        IN  \E i \in 1..Len(cands) :
               /\ cands[i] = selected.model[1]
               /\ \A j \in 1..Len(cands) : ~C10_Before(cands[j], cands[i], crit.sortBy)
               /\ \A j \in 1..(i - 1) : C10_Before(cands[i], cands[j], crit.sortBy)

\* C10's case: a second call has returned, there are two candidates that
\* compare equal under the sort key, and the one returned is the earlier.
C10_Witness ==
    /\ selected.call = 2
    /\ selected.model # None
    /\ LET cands == CandidateModels(modelPool, crit)
       IN  \E i, j \in 1..Len(cands) :
              /\ i < j
              /\ cands[i] = selected.model[1]
              /\ cands[j] # cands[i]
              /\ ~C10_Before(cands[i], cands[j], crit.sortBy)
              /\ ~C10_Before(cands[j], cands[i], crit.sortBy)
              /\ crit.sortBy \in {"performance", "tokens", "capabilities"}

(***************************************************************************)
(* Properties of the HTTP front and of the chat-completion pipeline        *)
(***************************************************************************)
IsPrefix(s, t) == Len(s) <= Len(t) /\ \A i \in 1..Len(s) : s[i] = t[i]

C2_Upto(n) == SubSeq(StageOrder, 1, n)

\* C2: the stages of a chat completion are visited in the order of
\* StageOrder; sendRequest is called at most once and only with every stage
\* visited, a valid body, a model returned by the selector, a granted access
\* check and an estimate within the selected model's input limit; a request
\* that failed a check has returned with the stages before that check only,
\* and a returned request visits no further stage.
C2_StagesInOrder ==
    [][ \A r \in Reqs :
          /\ IsPrefix(stages'[r], StageOrder)
          /\ sends'[r] <= 1
          /\ (sends'[r] > 0 <=> stages'[r] = StageOrder)
          /\ (sends'[r] > 0 =>
                /\ ctx'[r].body.kind = "valid"
                /\ ctx'[r].selectedModel # None
                /\ ctx'[r].hasAccess = "models"
                /\ ctx'[r].estimatedTokens <= ctx'[r].selectedModel[1].maxInputTokens)
          /\ (ctx'[r].body.kind \in {"unreadable", "malformed", "invalid"} =>
                pc'[r] = "done" /\ stages'[r] = C2_Upto(1))
          /\ (ctx'[r].body.kind = "valid" /\ ctx'[r].selectedModel = None =>
                pc'[r] = "done" /\ stages'[r] = C2_Upto(3))
          /\ (ctx'[r].hasAccess \in {"none", "throws"} =>
                pc'[r] = "done" /\ stages'[r] = C2_Upto(4))
          /\ (pc'[r] \in {"send", "stream", "collect"} => sends'[r] = 1)
          /\ (pc[r] = "done" => stages'[r] = stages[r] /\ sends'[r] = sends[r])
      ]_vars

\* C2's case: one request was dispatched to the provider and has returned.
C2_Witness ==
    \E r \in Reqs : sends[r] = 1 /\ pc[r] = "done" /\ stages[r] = StageOrder

(***************************************************************************)
(* Properties of the streaming translator                                  *)
(***************************************************************************)
IsChunk(e) == e.line = "data: {json}" /\ e.data.object = "chat.completion.chunk"
IsContentChunk(e) == IsChunk(e) /\ e.data.finish_reason = "null"
IsStopChunk(e) == IsChunk(e) /\ e.data.finish_reason = "stop" /\ e.data.content = ""
IsDone(e) == e.line = "data: [DONE]"
IsErrorEvent(e) == e.line = "data: {json}" /\ e.data.object = "error"

\* The delta contents of the content chunks written so far.
ContentsOf(out) ==
    LET chunks == SelectSeq(out, IsContentChunk)
    IN  [i \in 1..Len(chunks) |-> chunks[i].data.content]

NonEmpty(frags) == SelectSeq(frags, LAMBDA f : f # "")

\* C3: when the provider stream of a streaming request has ended without
\* error, what was written is content chunks only, then one chunk with empty
\* content and finish_reason 'stop', then `data: [DONE]`; the response is
\* ended; and no step writes anything more to it.
C3_StopThenDoneThenClosed ==
    [][ \A r \in Reqs :
          strm'[r].ended = "ok" =>
            LET out == strm'[r].out
                n == Len(out)
            IN  /\ n >= 2
                /\ \A i \in 1..(n - 2) : IsContentChunk(out[i])
                /\ IsStopChunk(out[n - 1])
                /\ IsDone(out[n])
                /\ res'[r].ended
                /\ res'[r].statusCode = HTTP_STATUS.OK
                /\ (strm[r].ended = "ok" => strm'[r] = strm[r] /\ res'[r] = res[r])
      ]_vars

\* C3's case: a provider stream ended without error after zero fragments.
C3_Witness ==
    \E r \in Reqs : strm[r].ended = "ok" /\ strm[r].frags = <<>> /\ res[r].ended

\* C4 as stated: the delta contents of the content chunks are the fragments
\* the provider produced, one chunk per fragment, in order.
C4_OneChunkPerFragment ==
    \A r \in Reqs : ContentsOf(strm[r].out) = strm[r].frags

\* C4, amended: the delta contents of the content chunks are the non-empty
\* fragments the provider produced, one chunk per non-empty fragment, in
\* order; a stream that ended without error has written two more events.
C4_OneChunkPerNonEmptyFragment ==
    \A r \in Reqs :
        /\ ContentsOf(strm[r].out) = NonEmpty(strm[r].frags)
        /\ (strm[r].ended = "ok" =>
              Len(strm[r].out) = Len(NonEmpty(strm[r].frags)) + 2)

\* C4's case: a stream with an empty and a non-empty fragment has ended.
C4_Witness ==
    \E r \in Reqs :
        /\ strm[r].ended = "ok"
        /\ Len(strm[r].frags) >= 2
        /\ \E i, j \in 1..Len(strm[r].frags) :
              strm[r].frags[i] = "" /\ strm[r].frags[j] # ""

\* C5: the first chunk written to a streaming response carries the role
\* marker and no later chunk does.
C5_FirstChunkHasRole ==
    \A r \in Reqs :
        LET chunks == SelectSeq(strm[r].out, IsChunk)
        IN  \A i \in 1..Len(chunks) :
                chunks[i].data.role = (IF i = 1 THEN "assistant" ELSE "none")

\* C6: when the provider stream has raised an error after k chunks were
\* forwarded, what was written is those k chunks and then exactly one error
\* event; the response is ended, its status is the 200 committed with its
\* only head; and no step ever takes back an event already written.
C6_OneErrorEventThenClosed ==
    [][ \A r \in Reqs :
          /\ IsPrefix(strm[r].out, strm'[r].out)
          /\ (strm'[r].ended = "error" =>
                LET out == strm'[r].out
                    k == Len(NonEmpty(strm'[r].frags))
                IN  /\ Len(out) = k + 1
                    /\ \A i \in 1..k : IsContentChunk(out[i])
                    /\ ContentsOf(out) = NonEmpty(strm'[r].frags)
                    /\ IsErrorEvent(out[k + 1])
                    /\ res'[r].ended
                    /\ res'[r].statusCode = HTTP_STATUS.OK
                    /\ res'[r].heads = 1)
      ]_vars

\* C6's case: a provider stream raised an error after one forwarded chunk.
C6_Witness ==
    \E r \in Reqs :
        /\ strm[r].ended = "error"
        /\ Len(NonEmpty(strm[r].frags)) = 1
        /\ res[r].ended

\* C7: a request gets at most one response head; a failure met while no head
\* was written leaves a JSON error body with a type and a status of 400 or
\* more; once the head is written no step changes the status, the kind of
\* body or the number of heads.
C7_AtMostOneHead ==
    [][ \A r \in Reqs :
          /\ res'[r].heads <= 1
          /\ (fail'[r].before =>
                /\ res'[r].headersSent
                /\ res'[r].body = "error"
                /\ res'[r].errorType # "none"
                /\ res'[r].statusCode >= HTTP_STATUS.BAD_REQUEST)
          /\ (res[r].headersSent =>
                /\ res'[r].headersSent
                /\ res'[r].statusCode = res[r].statusCode
                /\ res'[r].body = res[r].body
                /\ res'[r].errorType = res[r].errorType
                /\ res'[r].heads = res[r].heads)
      ]_vars

\* C7's case: a request failed before its head was written (the timeout
\* response) and failed again afterwards.
C7_Witness ==
    \E r \in Reqs :
        /\ fail[r].before
        /\ fail[r].after
        /\ res[r].statusCode = HTTP_STATUS.REQUEST_TIMEOUT
        /\ pc[r] = "done"

(***************************************************************************)
(* Properties of discovery                                                 *)
(***************************************************************************)
TierNames == {"primary", "secondary", "fallback", "unhealthy"}

\* How many times m occurs in the sequence tier.
Occurrences(m, tier) == Cardinality({ i \in 1..Len(tier) : tier[i] = m })

\* The tier C11 assigns to m, rule by rule.
C11_Tier(m) ==
    CASE ~m.isHealthy -> "unhealthy"
      [] m.isHealthy /\ m.supportsVision /\ m.supportsTools -> "primary"
      [] m.isHealthy /\ ~(m.supportsVision /\ m.supportsTools)
           /\ (m.supportsTools \/ m.maxInputTokens > 64000) -> "secondary"
      [] OTHER -> "fallback"

\* The models in the pool, whatever their tier.
C11_Pooled(pool) == UNION { Elems(pool[t]) : t \in TierNames }

\* C11: when a discovery pass completes its probing loop, the models of the
\* new pool are the models the pass probed successfully (those pushed
\* before the last probe, and the last one if its probe succeeded) and no
\* other, and each of them is once in the tier its first matching rule
\* gives and in no other tier.
C11_TiersPartitionDiscovered ==
    [][ \A p \in Passes :
          (pass[p].pc = "probing" /\ pass'[p].pc = "idle") =>
            LET before == Elems(pass[p].discoveredModels)
                last   == { analyzeModelCapabilities(pass[p].allModels[pass[p].next], rt) :
                              rt \in ResponseTimes }
            IN  /\ before \subseteq C11_Pooled(modelPool')
                /\ C11_Pooled(modelPool') \subseteq before \cup last
                /\ Cardinality(C11_Pooled(modelPool') \ before) <= 1
                /\ \A m \in C11_Pooled(modelPool'), t \in TierNames :
                      Occurrences(m, modelPool'[t]) = (IF t = C11_Tier(m) THEN 1 ELSE 0)
      ]_vars

\* C11's case: a pass has completed and left a model in the primary tier
\* and one in the fallback tier.
C11_Witness ==
    /\ \A p \in Passes : pass[p].pc = "idle"
    /\ modelPool.primary # <<>>
    /\ modelPool.fallback # <<>>
    /\ \A t \in TierNames : \A m \in Elems(modelPool[t]) : m.isHealthy

\* The pool without the health flags, which health checks rewrite in place.
C12_Shape(pool) ==
    [t \in TierNames |->
        [i \in 1..Len(pool[t]) |-> [pool[t][i] EXCEPT !.isHealthy = TRUE]]]

\* The step completes the pass of p and the new pool holds everything that
\* pass pushed.
C12_Completes(p) ==
    /\ pass'[p].pc = "idle"
    /\ \/ /\ pass[p].pc = "enumerating"
          /\ modelPool' = EmptyPool
       \/ /\ pass[p].pc = "probing"
          /\ pass[p].next = Len(pass[p].allModels)
          /\ Elems(pass[p].discoveredModels) \subseteq C11_Pooled(modelPool')
          /\ Cardinality(C11_Pooled(modelPool')) <= Len(pass[p].discoveredModels) + 1

\* C12: the pool changes its content only in the step that completes a
\* discovery pass, and then to the whole result of that pass, however the
\* passes of the timer and of initialization overlap; so every selection,
\* which reads the pool in one step, reads the initial empty pool or the
\* whole result of one pass.
C12_NeverPartialPool ==
    [][ /\ C12_Shape(modelPool') # C12_Shape(modelPool) =>
              \E p \in Passes : C12_Completes(p)
        /\ selected' # selected =>
              /\ modelPool' = modelPool
              /\ \E c \in RefreshCriteria \cup RequestCriteria :
                    selected'.model = selectOptimalModel(modelPool, c)
      ]_vars

\* C12's case: a selection has returned a model of the pool while the two
\* passes are both in their probing loops, each holding a probed model,
\* one of them a model the pool does not hold.
C12_Witness ==
    /\ selected.call # 0
    /\ selected.model # None
    /\ selected.model[1] \in C11_Pooled(modelPool)
    /\ \A p \in Passes : pass[p].pc = "probing" /\ pass[p].discoveredModels # <<>>
    /\ \E p \in Passes : ~(Elems(pass[p].discoveredModels) \subseteq C11_Pooled(modelPool))


(***************************************************************************)
(* Properties of the pipeline's rejections.                                *)
(***************************************************************************)
\* A value that, when set, is a number within lo..hi tenths.
InRange(value, lo, hi) ==
    IsAbsent(value) \/ (value.type = "number" /\ lo <= value.tenths /\ value.tenths <= hi)

\* A content part is a text part with a non-empty text or an image part
\* with a URL of an allowed form.
WellFormedPart(part) ==
    \/ part.type = "text" /\ part.text > 0
    \/ /\ part.type = "image_url"
       /\ part.url.scheme \in {"data:image/", "http://", "https://", "file://", "/", "./"}
       /\ part.url.extension \in {"jpeg", "jpg", "png", "gif", "webp"}

\* A message has a role of the three, and a text that is neither empty nor
\* over-long or a non-empty array of well-formed parts, at most 10 of them
\* images.
WellFormedMessage(msg) ==
    /\ msg.type = "object"
    /\ msg.role \in {"system", "user", "assistant"}
    /\ \/ /\ msg.content.type = "string"
          /\ msg.content.length \in 1..1000000
       \/ /\ msg.content.type = "array"
          /\ msg.content.parts # <<>>
          /\ \A j \in DOMAIN msg.content.parts : WellFormedPart(msg.content.parts[j])
          /\ Cardinality({j \in DOMAIN msg.content.parts :
                            msg.content.parts[j].type = "image_url"}) <= 10

\* The constraints a request violates, each under the name of the request
\* field it is about.
ViolatedConstraints(request) ==
    (IF /\ request.messages.type = "array"
        /\ request.messages.items # <<>>
        /\ \A i \in DOMAIN request.messages.items :
              WellFormedMessage(request.messages.items[i])
     THEN {} ELSE {"messages"})
    \cup (IF InRange(request.temperature, 0, 20) THEN {} ELSE {"temperature"})
    \cup (IF InRange(request.top_p, 0, 10) THEN {} ELSE {"top_p"})
    \cup (IF InRange(request.presence_penalty, -20, 20) THEN {} ELSE {"presence_penalty"})
    \cup (IF InRange(request.frequency_penalty, -20, 20) THEN {} ELSE {"frequency_penalty"})
    \cup (IF InRange(request.n, 10, 100) THEN {} ELSE {"n"})
    \cup (IF request.stop.type = "array" /\ request.stop.length > 4 THEN {"stop"} ELSE {})
    \cup (IF request.max_tokens.type = "number" /\ request.max_tokens.tenths < 10
          THEN {"max_tokens"} ELSE {})

\* The request field an error's param is about.
FieldOf(param) ==
    IF param \in {"messages", "messages.i", "messages.i.role", "messages.i.content",
                  "messages.i.content.j", "messages.i.content.j.text",
                  "messages.i.content.j.type", "messages.i.content.j.image_url",
                  "messages.i.content.j.image_url.url"}
    THEN "messages" ELSE param

\* C13: a parsed chat-completion request that violates a validation
\* constraint (the shape of the messages, a role, the length of a text, the
\* shape of a part, the number of images of a message, the range of
\* temperature, top_p, a penalty or n, the number of stop strings, max_tokens
\* below 1) and whose response head is not yet written is answered by the
\* validation step with one 400 invalid-request error about a field whose
\* constraint it violates (about the messages when they are violated, and
\* then about the first message that is not well formed); the step ends the
\* request without a stage passed, a model selected, the access checked or
\* the provider called.
C13_InvalidRejectedBeforeSelection ==
    [][\A r \in Reqs :
          /\ pc[r] = "body" /\ pc'[r] # "body"
          /\ ctx'[r].body.kind \in {"valid", "invalid"}
          /\ ViolatedConstraints(ctx'[r].body) # {}
          /\ ~res[r].headersSent
          => /\ ctx'[r].body.kind = "invalid"
             /\ res'[r].statusCode = HTTP_STATUS.BAD_REQUEST
             /\ res'[r].errorType = ERROR_CODES.INVALID_REQUEST
             /\ res'[r].body = "error" /\ res'[r].ended /\ res'[r].heads = 1
             /\ FieldOf(res'[r].param) \in ViolatedConstraints(ctx'[r].body)
             /\ ("messages" \in ViolatedConstraints(ctx'[r].body) =>
                    /\ FieldOf(res'[r].param) = "messages"
                    /\ res'[r].param # "messages" =>
                          LET items == ctx'[r].body.messages.items
                              index == res'[r].message.numbers[1]
                          IN  /\ ~WellFormedMessage(items[index + 1])
                              /\ \A i \in 1..index : WellFormedMessage(items[i]))
             /\ pc'[r] = "done"
             /\ stages'[r] = stages[r]
             /\ ctx'[r].selectedModel = None
             /\ ctx'[r].hasAccess = "unchecked"
             /\ sends'[r] = 0]_vars

\* A second message with 11 images was rejected for its images.
C13_Witness ==
    \E r \in Reqs :
        /\ pc[r] = "done"
        /\ ctx[r].body.kind = "invalid"
        /\ ViolatedConstraints(ctx[r].body) = {"messages"}
        /\ res[r].statusCode = HTTP_STATUS.BAD_REQUEST
        /\ res[r].message = Message("Too many images in message", <<1, 0>>)
        /\ res[r].param = "messages.i.content"
        /\ sends[r] = 0


\* C14: when the selector returns none for a validated request whose
\* response head is not yet written, the step answers 503 with the api-error
\* "No suitable model available for request requirements" and ends the
\* request, the access check and the provider never being reached; when it
\* returns a model, that model is bound to the context in that step, the
\* binding never changes afterwards, and sendRequest is called on that model
\* and no other.
C14_NoneIs503ElseBoundAndDispatched ==
    [][\A r \in Reqs :
          /\ (/\ pc[r] = "body" /\ pc'[r] # "body"
              /\ ctx'[r].body.kind = "valid"
              => LET answer == selectOptimalModel(modelPool,
                                   selectionCriteria(ctx'[r].body, ctx'[r]))
                 IN  IF answer = None
                     THEN /\ ctx'[r].selectedModel = None
                          /\ pc'[r] = "done"
                          /\ ctx'[r].hasAccess = "unchecked"
                          /\ sentTo'[r] = <<>>
                          /\ ~res[r].headersSent =>
                                /\ res'[r].statusCode = HTTP_STATUS.SERVICE_UNAVAILABLE
                                /\ res'[r].errorType = ERROR_CODES.API_ERROR
                                /\ res'[r].message.text =
                                      "No suitable model available for request requirements"
                                /\ res'[r].body = "error" /\ res'[r].heads = 1
                     ELSE /\ ctx[r].selectedModel = None
                          /\ ctx'[r].selectedModel = answer
                          /\ pc'[r] = "access")
          /\ (ctx[r].selectedModel # None => ctx'[r].selectedModel = ctx[r].selectedModel)
          /\ (ctx'[r].selectedModel = None => sentTo'[r] = <<>> /\ pc'[r] # "access")
          /\ (sentTo'[r] # sentTo[r] =>
                /\ ctx[r].selectedModel # None
                /\ sentTo'[r] = <<ctx[r].selectedModel[1]>>)]_vars

\* A validated request was refused for want of a suitable model although
\* the pool holds models, and ended without a call of the provider.
C14_Witness ==
    \E r \in Reqs :
        /\ pc[r] = "done"
        /\ ctx[r].body.kind = "valid"
        /\ ctx[r].selectedModel = None
        /\ C11_Pooled(modelPool) # {}
        /\ res[r].statusCode = HTTP_STATUS.SERVICE_UNAVAILABLE
        /\ res[r].message.text = "No suitable model available for request requirements"
        /\ sentTo[r] = <<>>


\* C15: when the access probe made for a request finds no model of the
\* vendor, or throws, the request ends in that step without a call of the
\* provider, although a model had been selected for it from the pool; if its
\* response head is not yet written it is answered 401 with an
\* authentication error.
C15_NoAccessIs401 ==
    [][\A r \in Reqs :
          /\ (/\ pc[r] = "access" /\ pc'[r] # "access"
              /\ ctx'[r].hasAccess \in {"none", "throws"}
              => /\ ctx[r].selectedModel # None
                 /\ ctx'[r].selectedModel = ctx[r].selectedModel
                 /\ pc'[r] = "done"
                 /\ sends'[r] = 0 /\ sentTo'[r] = <<>>
                 /\ "AccessChecked" \notin Elems(stages'[r])
                 /\ ~res[r].headersSent =>
                       /\ res'[r].statusCode = HTTP_STATUS.UNAUTHORIZED
                       /\ res'[r].errorType = ERROR_CODES.AUTHENTICATION_ERROR
                       /\ res'[r].message.text = NOTIFICATIONS.NO_COPILOT_ACCESS
                       /\ res'[r].body = "error" /\ res'[r].ended
                       /\ res'[r].heads = 1)
          /\ (ctx'[r].hasAccess \in {"none", "throws"} => sends'[r] = 0)]_vars

\* The probe threw for a request that had a model selected; the request
\* ended with a 401 and the provider was not called.
C15_Witness ==
    \E r \in Reqs :
        /\ pc[r] = "done"
        /\ ctx[r].hasAccess = "throws"
        /\ ctx[r].selectedModel # None
        /\ res[r].statusCode = HTTP_STATUS.UNAUTHORIZED
        /\ res[r].errorType = ERROR_CODES.AUTHENTICATION_ERROR
        /\ sends[r] = 0


\* The models that meet every requirement of the request of context c but
\* its size.
C16_OtherwiseSuitable(pool, c) ==
    { m \in Elems(AvailableModels(pool)) :
        PassesFilter(m, [selectionCriteria(c.body, c) EXCEPT !.minContextTokens = 0]) }

C17_OutputLimit(m) ==
    IF "maxOutputTokens" \in DOMAIN m /\ m.maxOutputTokens # 0
    THEN m.maxOutputTokens
    ELSE m.maxInputTokens * 5

\* C17: every request that was dispatched to the provider with max_tokens
\* set has max_tokens above 0 and at most the effective output limit of the
\* model it was dispatched to.
C17_MaxTokensWithinDispatchedLimit ==
    \A r \in Reqs :
        \A i \in DOMAIN sentTo[r] :
            ctx[r].body.max_tokens.type = "number" =>
                /\ ctx[r].body.max_tokens.tenths > 0
                /\ ctx[r].body.max_tokens.tenths <= C17_OutputLimit(sentTo[r][i])


\* The status and the error type a provider error is to be answered with.
C18_Mapping(code) ==
    CASE code \in {"NoPermissions", "Blocked"} ->
            <<HTTP_STATUS.FORBIDDEN, ERROR_CODES.PERMISSION_ERROR>>
      [] code = "NotFound" ->
            <<HTTP_STATUS.NOT_FOUND, ERROR_CODES.NOT_FOUND_ERROR>>
      [] code = "ContextLengthExceeded" ->
            <<HTTP_STATUS.BAD_REQUEST, ERROR_CODES.INVALID_REQUEST>>
      [] OTHER ->
            <<HTTP_STATUS.BAD_GATEWAY, ERROR_CODES.API_ERROR>>

\* C18: an error the provider raises for a request whose response head is
\* not yet written, at sendRequest or while the response is collected, is
\* answered with the status and error type of its code: NoPermissions and
\* Blocked with 403 permission error, NotFound with 404, ContextLengthExceeded
\* with 400 invalid request, anything else with 502 api error.
C18_ProviderErrorsMapped ==
    [][\A r \in Reqs :
          /\ fail[r].raised = "none" /\ fail'[r].raised # "none"
          /\ ~res[r].headersSent
          => /\ <<res'[r].statusCode, res'[r].errorType>> = C18_Mapping(fail'[r].raised)
             /\ res'[r].body = "error" /\ res'[r].ended /\ res'[r].heads = 1]_vars


\* C19: sendRequest is called at most once for a request, on one model; a
\* request for which the provider raised an error has ended with that one
\* call, and a request that has ended is never dispatched again.
C19_AtMostOneSend ==
    [][\A r \in Reqs :
          /\ sends'[r] \in {0, 1}
          /\ Len(sentTo'[r]) = sends'[r]
          /\ sends'[r] >= sends[r]
          /\ (fail'[r].raised # "none" => pc'[r] = "done" /\ sends'[r] = 1)
          /\ (fail[r].raised # "none" => sentTo'[r] = sentTo[r])]_vars

\* The provider refused a request that another model of the pool could have
\* served; the request ended after its one call.
C19_Witness ==
    \E r \in Reqs :
        /\ pc[r] = "done"
        /\ fail[r].raised = "NotFound"
        /\ sends[r] = 1
        /\ \E m \in Elems(AvailableModels(modelPool)) :
              /\ m # sentTo[r][1]
              /\ PassesFilter(m, selectionCriteria(ctx[r].body, ctx[r]))


(***************************************************************************)
(* Properties of tool execution.                                           *)
(***************************************************************************)
\* C20: a call of executeToolCall never ends in a throw.  A call for a tool
\* that is not registered returns {success: false, error}; failing that, so
\* does a call for a disabled tool; failing that, a call whose argument
\* string is not JSON; failing that, a call whose arguments lack a required
\* parameter of the tool's schema; in these four cases the handler is not
\* invoked.  A call whose handler fails or runs into the timeout returns
\* {success: false, error} as well.
C20_ToolFailuresAreReturned ==
    [][/\ toolCall'.outcome \in {"none", "returned"}
       /\ (toolCall.pc = "idle" /\ toolCall'.pc # "idle" =>
             LET name == toolCall'.toolName
                 refused(error) ==
                     /\ toolCall'.pc = "returned"
                     /\ ~toolCall'.success
                     /\ toolCall'.error = error
                     /\ toolCall'.handlerCalls = 0
                 called == toolCall'.pc = "handler" /\ toolCall'.handlerCalls = 1
             IN  /\ (name \notin DOMAIN toolRegistry => refused("ToolNotFound"))
                 /\ (name \in DOMAIN toolRegistry /\ ~toolRegistry[name].isEnabled
                        => refused("ToolDisabled"))
                 /\ (toolCall'.error = "InvalidJSON" =>
                        /\ refused("InvalidJSON")
                        /\ name \in DOMAIN toolRegistry
                        /\ toolRegistry[name].isEnabled)
                 /\ (toolCall'.error = "ValidationFailed" =>
                        /\ refused("ValidationFailed")
                        /\ name \in DOMAIN toolRegistry
                        /\ toolRegistry[name].isEnabled)
                 /\ (called => name \in DOMAIN toolRegistry /\ toolRegistry[name].isEnabled)
                 /\ (called \/ toolCall'.pc = "returned"))
       /\ (toolCall.pc = "handler" /\ toolCall'.pc # "handler" =>
             /\ toolCall'.pc = "returned"
             /\ toolCall'.handlerCalls = 1
             /\ toolCall'.success \/ toolCall'.error \in {"HandlerError", "Timeout"})
      ]_vars

\* A call of file_info whose arguments lack a required parameter was
\* refused without its handler being invoked, after another call had been
\* refused because the tool was disabled.
C20_Witness ==
    /\ toolCall.pc = "returned"
    /\ toolCall.toolName = "file_info"
    /\ toolCall.outcome = "returned"
    /\ ~toolCall.success
    /\ toolCall.error = "ValidationFailed"
    /\ toolCall.handlerCalls = 0
    /\ toolRegistry["file_info"].errorCount = 2

\* An execution ends: executeToolCall returns its result in this step.
ExecutionEnds == toolCall.pc # "returned" /\ toolCall'.pc = "returned"

\* The counters of the tool registered as name went up by the given amounts
\* in this step.
CountersStep(name, usage, errors) ==
    /\ name \in DOMAIN toolRegistry
    /\ name \in DOMAIN toolRegistry'
    /\ toolRegistry'[name].usageCount = toolRegistry[name].usageCount + usage
    /\ toolRegistry'[name].errorCount = toolRegistry[name].errorCount + errors

\* C21 as stated: every execution ends either in success, with the called
\* tool's usageCount one higher and one tool_executed event, or in failure,
\* with the called tool's errorCount one higher and one tool_error event;
\* it never raises both counters or neither.
C21_ExactlyOneCounter ==
    [][ExecutionEnds =>
          IF toolCall'.success
          THEN /\ CountersStep(toolCall'.toolName, 1, 0)
               /\ toolCall'.events = <<"tool_executed">>
          ELSE /\ CountersStep(toolCall'.toolName, 0, 1)
               /\ toolCall'.events = <<"tool_error">>
      ]_vars

\* C21, amended: every execution ends in success with one tool_executed
\* event or in failure with one tool_error event.  When the called tool is
\* registered and its entry was not replaced during the call, exactly one
\* of its counters goes up by one: usageCount on success, errorCount on
\* failure.  A call that names no registered tool fails and changes no
\* counter; a success after the entry was replaced changes no counter of the
\* registry (the replaced entry is counted); no other tool's counters change.
C21_ExactlyOneCounterOfARegisteredTool ==
    [][ExecutionEnds =>
          LET name == toolCall'.toolName
          IN  /\ toolCall'.events =
                    IF toolCall'.success THEN <<"tool_executed">> ELSE <<"tool_error">>
              /\ DOMAIN toolRegistry' = DOMAIN toolRegistry
              /\ \A id \in DOMAIN toolRegistry \ {name} : CountersStep(id, 0, 0)
              /\ (name \notin DOMAIN toolRegistry =>
                     ~toolCall'.success /\ toolRegistry' = toolRegistry)
              /\ (name \in DOMAIN toolRegistry =>
                     IF ~toolCall'.success THEN CountersStep(name, 0, 1)
                     ELSE IF toolCall.registryEntry = "current"
                     THEN CountersStep(name, 1, 0)
                     ELSE CountersStep(name, 0, 0))
      ]_vars

\* The calculator was executed with success after one of its calls had
\* failed: both of its counters stand at one.
C21_Witness ==
    /\ toolCall.pc = "returned"
    /\ toolCall.toolName = "calculator"
    /\ toolCall.success
    /\ toolCall.registryEntry = "current"
    /\ toolCall.events = <<"tool_executed">>
    /\ toolRegistry["calculator"].usageCount = 1
    /\ toolRegistry["calculator"].errorCount = 1

\* The fields of the call record that make up the result the caller gets.
ReturnedResult(call) == <<call.pc, call.outcome, call.success, call.error>>

\* C22: the handler is raced against a 30-second timer.  A handler that
\* settles before 30000 ms decides the result (success when it resolves, its
\* error when it rejects) and no handler is left running; when the timer
\* fires first the call returns {success: false} with the timeout error and
\* the handler is left running, uncancelled.  When such a handler settles
\* later, the returned result and every counter of the registry stay as they
\* were.
C22_RaceAgainstThirtySeconds ==
    [][/\ (toolCall.pc = "handler" /\ toolCall'.pc # "handler" =>
             LET handlerWon ==
                     /\ toolCall'.success = (toolCall'.handlerOutcome = "resolved")
                     /\ toolCall'.success \/ toolCall'.error = toolCall'.handlerOutcome
                     /\ toolCall'.abandoned = toolCall.abandoned
                 timerWon ==
                     /\ ~toolCall'.success
                     /\ toolCall'.error = "Timeout"
                     /\ toolCall'.abandoned = toolCall.abandoned + 1
             IN  /\ toolCall'.pc = "returned"
                 /\ (toolCall'.handlerTime < 30000 => handlerWon)
                 /\ (toolCall'.handlerTime > 30000 => timerWon)
                 /\ (handlerWon \/ timerWon))
       /\ (toolCall'.abandoned < toolCall.abandoned =>
             /\ toolRegistry' = toolRegistry
             /\ ReturnedResult(toolCall') = ReturnedResult(toolCall))
       /\ (toolCall'.abandoned > toolCall.abandoned =>
             toolCall.pc = "handler" /\ toolCall'.error = "Timeout")
      ]_vars

\* A call of the calculator has returned with success while the handler of
\* an earlier call, which ran into the timeout at 30001 ms, is still
\* running.
C22_Witness ==
    /\ toolCall.pc = "returned"
    /\ toolCall.success
    /\ toolCall.handlerTime = 29999
    /\ toolCall.abandoned = 1
    /\ toolRegistry["calculator"].usageCount = 1
    /\ toolRegistry["calculator"].errorCount = 1

(***************************************************************************)
(* Properties of the file inspector                                        *)
(***************************************************************************)
\* The path is one the claim lists: it contains "..", "~", a null byte, a
\* percent-encoded octet or a backslash, or it is absolute, or it starts
\* with a drive letter.
ListedPath(chars) ==
    \/ \E i \in 1..(Len(chars) - 1) : chars[i] = "." /\ chars[i + 1] = "."
    \/ \E i \in 1..Len(chars) : chars[i] \in {"~", "NUL", "\\"}
    \/ \E i \in 1..(Len(chars) - 2) :
          chars[i] = "%" /\ chars[i + 1] \in HexDigits /\ chars[i + 2] \in HexDigits
    \/ Len(chars) >= 1 /\ chars[1] = "/"
    \/ Len(chars) >= 2 /\ chars[1] \in Letters /\ chars[2] = ":"

\* The resolved path is the working directory or lies below it.
InsideWorkingDirectory(cwd, normalizedPath) ==
    /\ Len(normalizedPath) >= Len(cwd)
    /\ \A i \in 1..Len(cwd) : normalizedPath[i] = cwd[i]

\* C23: a listed path is rejected with an error, with no filesystem access
\* and no result; the filesystem is accessed only with the resolved path of
\* a call whose path passed validation, and that path is the working
\* directory or lies inside it.
C23_OnlyValidatedPathsTouchTheFilesystem ==
    [][/\ (fileInfo.pc = "idle" /\ fileInfo'.pc # "idle" =>
             /\ fileInfo'.accessed = <<>>
             /\ fileInfo'.result = "none"
             /\ (fileInfo.path.type = "string" /\ ListedPath(fileInfo.path.chars) =>
                    fileInfo'.pc = "thrown" /\ fileInfo'.error # "none")
             /\ (fileInfo'.pc = "fs" =>
                    /\ fileInfo.path.type = "string"
                    /\ validateAndNormalizePath(fileInfo.path.chars, fileInfo.cwd).ok
                    /\ fileInfo'.normalizedPath =
                          normalizeString(fileInfo.cwd \o Split(fileInfo.path.chars), <<>>)
                    /\ InsideWorkingDirectory(fileInfo.cwd, fileInfo'.normalizedPath))
             /\ fileInfo'.pc \in {"fs", "thrown"})
       /\ (fileInfo'.accessed # fileInfo.accessed =>
             /\ fileInfo.pc = "fs"
             /\ fileInfo'.accessed = <<fileInfo.normalizedPath>>
             /\ InsideWorkingDirectory(fileInfo.cwd, fileInfo.normalizedPath))
       /\ (fileInfo'.pc = "thrown" => fileInfo'.result = "none")
      ]_vars

\* The path "e/w" was accepted in the working directory /w and the
\* filesystem was asked for /w/e/w, and for nothing else.
C23_Witness ==
    /\ fileInfo.pc = "returned"
    /\ fileInfo.cwd = << <<"w">> >>
    /\ fileInfo.path = PathParameter("string", <<"e", "/", "w">>)
    /\ fileInfo.operation = "stat"
    /\ fileInfo.accessed = << << <<"w">>, <<"e">>, <<"w">> >> >>
    /\ fileInfo.result = "stat"

(***************************************************************************)
(* Properties of the arithmetic evaluator                                  *)
(***************************************************************************)
\* The grammar, read off an expression without whitespace from the outside
\* in.  Nesting is the number of parentheses open before position k; an
\* operator is binary when it stands outside every parenthesis and follows
\* the end of an operand.
Nesting(e, k) ==
    Cardinality({i \in 1..(k - 1) : e[i] = "("})
      - Cardinality({i \in 1..(k - 1) : e[i] = ")"})

BalancedParentheses(e) ==
    /\ \A k \in 1..(Len(e) + 1) : Nesting(e, k) >= 0
    /\ Nesting(e, Len(e) + 1) = 0

BinaryOperators(e, operators) ==
    {k \in 2..Len(e) : /\ e[k] \in operators
                       /\ Nesting(e, k) = 0
                       /\ e[k - 1] \in Digits \cup {".", ")"}}

Last(positions) == CHOOSE k \in positions : \A j \in positions : j <= k

NoValue == [ok |-> FALSE, value |-> [n |-> 0, d |-> 1]]

Value(v) == [ok |-> TRUE, value |-> v]

\* A number is a run of digits and dots; its value is that of its digits
\* up to the second dot, the first being the decimal point.
NumeralValue(e) ==
    LET dots == {i \in 1..Len(e) : e[i] = "."}
        point == IF dots = {} THEN Len(e) + 1
                 ELSE CHOOSE i \in dots : \A j \in dots : i <= j
        later == {i \in dots : i > point}
        end == IF later = {} THEN Len(e) + 1
               ELSE CHOOSE i \in later : \A j \in later : i <= j
        places == end - point - 1
        scaled(i) == IF i < point THEN PowerOfTen(point - 1 - i + (IF places > 0 THEN places ELSE 0))
                     ELSE PowerOfTen(end - 1 - i)
        digitsAt == {i \in 1..(end - 1) : i # point}
    IN  IF digitsAt = {} \/ \E i \in 1..Len(e) : e[i] \notin Digits \cup {"."}
        THEN NoValue
        ELSE Value(Fraction(
                 Sum([i \in 1..(end - 1) |->
                        IF i = point THEN 0 ELSE DigitValue(e[i]) * scaled(i)]),
                 PowerOfTen(IF places > 0 THEN places ELSE 0)))

RECURSIVE GrammarValue(_)
GrammarValue(e) ==
    LET additive == BinaryOperators(e, {"+", "-"})
        multiplicative == BinaryOperators(e, {"*", "/"})
        split(k) ==
            LET left == GrammarValue(SubSeq(e, 1, k - 1))
                right == GrammarValue(SubSeq(e, k + 1, Len(e)))
            IN  IF ~left.ok \/ ~right.ok THEN NoValue
                ELSE IF e[k] = "+" THEN Value(Plus(left.value, right.value))
                ELSE IF e[k] = "-" THEN Value(Minus(left.value, right.value))
                ELSE IF e[k] = "*" THEN Value(Times(left.value, right.value))
                ELSE IF right.value.n = 0 THEN NoValue
                ELSE Value(DividedBy(left.value, right.value))
        operand == GrammarValue(SubSeq(e, 2, Len(e)))
    IN  IF e = <<>> \/ ~BalancedParentheses(e) THEN NoValue
        ELSE IF additive # {} THEN split(Last(additive))
        ELSE IF multiplicative # {} THEN split(Last(multiplicative))
        ELSE IF e[1] = "+" THEN operand
        ELSE IF e[1] = "-"
        THEN IF operand.ok THEN Value(Negated(operand.value)) ELSE NoValue
        ELSE IF e[1] = "(" /\ e[Len(e)] = ")" /\ BalancedParentheses(SubSeq(e, 2, Len(e) - 1))
        THEN GrammarValue(SubSeq(e, 2, Len(e) - 1))
        ELSE NumeralValue(e)

\* C24: on the stripped input, whitespace aside, the evaluator returns the
\* value the grammar gives the expression (unary + and -, parentheses, *
\* and / binding tighter than + and -, left to right within a level), and
\* it returns an error where the grammar gives none: division by zero,
\* unbalanced parentheses, characters left over or missing.
C24_EvaluatesTheGrammar ==
    calc.pc = "returned" =>
        LET e == SelectSeq(calc.safeExpression, LAMBDA c : c # " ")
            grammar == GrammarValue(e)
        IN  /\ calc.result.type \in {"number", "error"}
            /\ (grammar.ok =>
                   calc.result.type = "number" /\ calc.result.value = grammar.value)
            /\ (~grammar.ok => calc.result.type = "error")
            /\ (~BalancedParentheses(e) => calc.result.type = "error")
            /\ (calc.expression = <<"2", "+", "3", "*", "4">> =>
                   calc.result.value = [n |-> 14, d |-> 1])
            /\ (calc.expression = <<"(", "2", "+", "3", ")", "*", "4">> =>
                   calc.result.value = [n |-> 20, d |-> 1])
            /\ (calc.expression = <<"1", "/", "(", "2", "-", "2", ")">> =>
                   calc.result.error = "DivisionByZero")

\* 8/4/2 was evaluated from left to right: it is 1, not 4.
C24_Witness ==
    /\ calc.pc = "returned"
    /\ calc.expression = <<"8", "/", "4", "/", "2">>
    /\ calc.result.type = "number"
    /\ calc.result.value = [n |-> 1, d |-> 1]

(***************************************************************************)
(* Properties of the capability prober                                     *)
(***************************************************************************)
\* C25: every probed model has maxOutputTokens = min(maxInputTokens / 2,
\* 4096), which is at most its maxInputTokens, and contextWindow equal to
\* its maxInputTokens (maxOutputTokens is in tenths of a token).
C25_OutputWithinInput ==
    \A i \in DOMAIN getAllModels(modelPool) :
        LET m == getAllModels(modelPool)[i]
        IN  /\ 2 * m.maxOutputTokens <= 10 * m.maxInputTokens
            /\ 2 * m.maxOutputTokens = 10 * m.maxInputTokens
                  \/ m.maxOutputTokens = 10 * 4096
            /\ m.maxOutputTokens <= 10 * 4096
            /\ m.maxOutputTokens <= 10 * m.maxInputTokens
            /\ m.contextWindow = m.maxInputTokens

\* A model reported with 8191 input tokens was probed: its output limit is
\* 4095.5 tokens.
C25_Witness ==
    \E i \in DOMAIN getAllModels(modelPool) :
        LET m == getAllModels(modelPool)[i]
        IN  /\ m.maxInputTokens = 8191
            /\ m.maxOutputTokens = 40955
            /\ m.contextWindow = 8191

(***************************************************************************)
(* Properties of the usage report                                          *)
(***************************************************************************)
UsageAddsUp(usage) ==
    usage.total_tokens = usage.prompt_tokens + usage.completion_tokens

\* C26: every non-streaming completion response has
\* usage.total_tokens = usage.prompt_tokens + usage.completion_tokens.
C26_TotalIsPromptPlusCompletion ==
    completion.pc = "responded" => UsageAddsUp(completion.usage)

\* What holds of both versions: the total is the context's estimate plus the
\* estimate of the collected text, and the sum is right where prompt_tokens
\* is the context's estimate.
C26_TotalIsEstimatePlusCompletion ==
    completion.pc = "responded" =>
        /\ completion.usage.total_tokens =
              completion.estimatedTokens + completion.usage.completion_tokens
        /\ completion.converter = "part_002" => UsageAddsUp(completion.usage)

(***************************************************************************)
(* Properties of the manual refresh                                        *)
(***************************************************************************)
RefreshResponds ==
    /\ refresh.pc # "responded"
    /\ refresh'.pc = "responded"
    /\ refresh'.status = 200

\* C27: when POST /v1/models/refresh answers, its pass has run to
\* completion, the count it returns is the number of models the pass
\* discovered, and the pool that chat completions select from and that
\* GET /v1/models lists is the result of that pass.
C27_RefreshReachesTheConsultedPool ==
    [][ RefreshResponds =>
          /\ refresh'.modelCount = Len(refresh'.discoveredModels)
          /\ ConsultedPool' = updateModelPool(refresh'.discoveredModels) ]_vars

\* What the code does: the pass has run to completion on the server's own
\* discovery service and the count is that of its result.
C27_RefreshReachesTheServerPool ==
    [][ RefreshResponds =>
          /\ refresh'.modelCount = Len(refresh'.discoveredModels)
          /\ serverModelPool' = updateModelPool(refresh'.discoveredModels) ]_vars

(***************************************************************************)
(* Properties of the response headers                                      *)
(***************************************************************************)
\* C28: every response whose head is written carries the CORS headers, and
\* a preflight is answered 200 with an empty body.
C28_CorsOnEveryResponse ==
    \A r \in Reqs :
        /\ res[r].headersSent => res[r].cors
        /\ route[r] = "preflight" =>
              /\ res[r].statusCode = HTTP_STATUS.OK
              /\ res[r].body = "none"
              /\ res[r].ended

\* What the code does: the headers are on every response of a request that
\* got past the shutdown test and the parsing of its URL, whatever answers it.
C28_CorsOnceParsed ==
    \A r \in Reqs :
        /\ (res[r].headersSent /\ route[r] \notin {"shutdown", "error"}) => res[r].cors
        /\ (res[r].headersSent /\ route[r] \in {"shutdown", "error"}) => ~res[r].cors
        /\ route[r] = "preflight" =>
              /\ res[r].statusCode = HTTP_STATUS.OK
              /\ res[r].body = "none"
              /\ res[r].ended

(***************************************************************************)
(* Properties of the concurrency cap                                       *)
(***************************************************************************)
\* Request r arrives and is neither a preflight nor turned away for the
\* shutdown or for its URL.
Arrives(r) ==
    /\ pc[r] = "idle"
    /\ pc'[r] # "idle"
    /\ route'[r] \notin {"preflight", "shutdown", "error"}

\* C29: a request that arrives while fewer requests than the cap are in
\* flight is not answered 429 and is routed to its handler.
C29_UnderCapIsRouted ==
    [][ \A r \in Reqs :
          (Arrives(r) /\ Cardinality(activeRequests) < maxConcurrentRequests)
             => /\ route'[r] # "limited"
                /\ res'[r].statusCode # HTTP_STATUS.TOO_MANY_REQUESTS
      ]_vars

\* What the code does: the arriving request counts itself, so it is routed
\* exactly when the others in flight are fewer than the cap less one.
C29_RoutedIffUnderCapLessOne ==
    [][ \A r \in Reqs :
          Arrives(r) =>
             (route'[r] # "limited"
                <=> Cardinality(activeRequests \ {r}) + 1 < maxConcurrentRequests)
      ]_vars

(***************************************************************************)
(* Properties of the model preference                                      *)
(***************************************************************************)
\* The pooled models that pass the filter of the criteria, and those of them
\* with a preferred id.
C30_Filtered ==
    { m \in Elems(modelPool.primary) \cup Elems(modelPool.secondary) :
        C9_Eligible(m, crit) }

C30_Matching == { m \in C30_Filtered : m.id \in crit.preferredModels }

\* C30: when a filtered candidate has a preferred id, the call returns a
\* model with a preferred id; when none has, the call returns what it
\* returns with no preference; it returns none only if no model passes the
\* filter.
C30_PreferenceIsSoft ==
    selected.call # 0 =>
        /\ (crit.preferredModels # {} /\ C30_Matching # {}) =>
              /\ selected.model # None
              /\ selected.model[1].id \in crit.preferredModels
              /\ selected.model[1] \in C30_Matching
        /\ C30_Matching = {} =>
              selected.model =
                 selectOptimalModel(modelPool, [crit EXCEPT !.preferredModels = {}])
        /\ selected.model = None => C30_Filtered = {}

\* C30's case: a call with a preference that no filtered candidate matches
\* returned a model, while the pool holds a model with a preferred id that
\* the filter turned down.
C30_Witness ==
    /\ selected.call # 0
    /\ crit.preferredModels # {}
    /\ C30_Matching = {}
    /\ selected.model # None
    /\ selected.model[1].id \notin crit.preferredModels
    /\ \E m \in Elems(modelPool.primary) \cup Elems(modelPool.secondary) :
          m.id \in crit.preferredModels

(***************************************************************************)
(* Properties of the health check                                          *)
(***************************************************************************)
\* The ids of a tier, in order.
TierOrder(tier) == [i \in 1..Len(tier) |-> tier[i].id]

\* C31: a step that is no step of a discovery pass (a health check, then)
\* leaves every tier with the same models in the same order, changing
\* nothing but isHealthy flags, and those outside the unhealthy tier only;
\* the tier of a model changes only in a step of a discovery pass.
C31_HealthCheckKeepsTiers ==
    [][ pass' = pass =>
          /\ \A t \in TierNames :
                /\ TierOrder(modelPool'[t]) = TierOrder(modelPool[t])
                /\ \A i \in 1..Len(modelPool[t]) :
                      [modelPool'[t][i] EXCEPT !.isHealthy = TRUE]
                         = [modelPool[t][i] EXCEPT !.isHealthy = TRUE]
          /\ modelPool'.unhealthy = modelPool.unhealthy
      ]_vars

\* C31's case: a health check has flipped the flag of a model of the
\* primary tier, which is still there, while another pooled model kept its
\* flag.
C31_Witness ==
    /\ \E i \in 1..Len(modelPool.primary) : ~modelPool.primary[i].isHealthy
    /\ \E m \in Elems(modelPool.secondary \o modelPool.fallback) : m.isHealthy
    /\ modelPool.unhealthy = <<>>
    /\ \A p \in Passes : pass[p].pc = "idle"

(***************************************************************************)
(* Properties of the routing criteria                                      *)
(***************************************************************************)
\* A message of the request has an image part; a message carries tool calls.
HasImagePart(request) ==
    \E i \in DOMAIN request.messages.items :
        LET content == request.messages.items[i].content
        IN  content.type = "array"
              /\ \E j \in DOMAIN content.parts : content.parts[j].type = "image_url"

HasToolCalls(request) ==
    \E i \in DOMAIN request.messages.items : request.messages.items[i].tool_calls

\* The criteria are those of the request in everything but the tools.
CriteriaButTools(request, context, c) ==
    /\ c.requiresVision <=> HasImagePart(request)
    /\ c.minContextTokens = context.estimatedTokens
    /\ c.preferredModels =
          (IF request.model # "auto-select" THEN {request.model} ELSE {})

\* C32: the criteria require vision exactly when a message has an image
\* part, require tools exactly when a message carries tool calls or the
\* request has a non-empty functions or tools list, set minContextTokens to
\* the estimate and prefer the requested model exactly when one is named.
C32_CriteriaFollowTheRequest ==
    ctx[1].body.kind = "json" =>
        /\ CriteriaButTools(ctx[1].body, ctx[1], crit)
        /\ crit.requiresTools <=>
              (HasToolCalls(ctx[1].body) \/ ctx[1].body.functions \/ ctx[1].body.tools)

\* What the code does: the tools list of the request is not looked at.
C32_CriteriaIgnoreTheToolsList ==
    ctx[1].body.kind = "json" =>
        /\ CriteriaButTools(ctx[1].body, ctx[1], crit)
        /\ crit.requiresTools <=> (HasToolCalls(ctx[1].body) \/ ctx[1].body.functions)


(***************************************************************************)
(* Properties of the tools of a request                                    *)
(***************************************************************************)
\* The entry of the registry under a name is there and enabled.
HasEnabledHandler(name) == name \in DOMAIN toolRegistry /\ toolRegistry[name].isEnabled

\* C33: tools go to the provider only if the selected model supports tools
\* and the request included functions or tools; every tool that goes is a
\* function of the request whose name has an enabled entry in the registry
\* when the tools are prepared; a function whose name has none is not among
\* them, and the request goes on to sendRequest all the same.
C33_AttachedToolsHaveEnabledHandlers ==
    [][requestOptions.pc = "idle" /\ requestOptions' # requestOptions =>
         LET o == requestOptions'
         IN  /\ o.pc = "sendRequest"
             /\ o.tools.defined =>
                   /\ o.supportsTools
                   /\ Len(o.functions) > 0 \/ o.hasTools
             /\ \A i \in 1..Len(o.tools.value) :
                   /\ \E j \in 1..Len(o.functions) : o.functions[j] = o.tools.value[i]
                   /\ HasEnabledHandler(o.tools.value[i])
             /\ \A j \in 1..Len(o.functions) :
                   ~HasEnabledHandler(o.functions[j]) =>
                      \A i \in 1..Len(o.tools.value) : o.tools.value[i] # o.functions[j]]_vars

\* A request with a function that has no handler and a function whose
\* handler is enabled went to sendRequest with the second one alone.
C33_Witness ==
    /\ requestOptions.pc = "sendRequest"
    /\ requestOptions.functions = <<"weather", "calculator">>
    /\ requestOptions.tools = [defined |-> TRUE, value |-> <<"calculator">>]
    /\ "weather" \notin DOMAIN toolRegistry
    /\ toolRegistry["calculator"].isEnabled


(***************************************************************************)
(* Properties of a discovery pass with failures                            *)
(***************************************************************************)
\* The models of a pool, tier after tier.
PooledModels(pool) == pool.primary \o pool.secondary \o pool.fallback \o pool.unhealthy

\* C34: in a discovery pass every enumerated model is probed, whether the
\* probes before it failed or not; a model whose probe fails is left out and
\* every other one is kept; when the last probe has settled the new pool
\* holds exactly the kept models and the pass returns their number; a pass
\* whose enumeration fails ends in failure with the pool as it was.
C34_ProbeFailureIsNotFatal ==
    [][ /\ refresh.pc = "probing" /\ refresh' # refresh =>
             LET h    == refresh.allModels[refresh.next]
                 last == refresh.next = Len(refresh.allModels)
                 kept == refresh'.discoveredModels
             IN  /\ \/ kept = refresh.discoveredModels
                    \/ /\ Len(kept) = Len(refresh.discoveredModels) + 1
                       /\ SubSeq(kept, 1, Len(kept) - 1) = refresh.discoveredModels
                       /\ kept[Len(kept)].id = h.id
                 /\ ~last => /\ refresh'.pc = "probing"
                             /\ refresh'.next = refresh.next + 1
                             /\ serverModelPool' = serverModelPool
                 /\ last => /\ refresh'.pc = "responded"
                            /\ refresh'.status = 200
                            /\ refresh'.modelCount = Len(kept)
                            /\ Len(PooledModels(serverModelPool')) = Len(kept)
                            /\ \A i \in 1..Len(kept) :
                                  \E j \in 1..Len(PooledModels(serverModelPool')) :
                                     PooledModels(serverModelPool')[j] = kept[i]
        /\ refresh.pc = "enumerating" /\ refresh'.pc = "responded" /\ refresh'.status = 500 =>
             serverModelPool' = serverModelPool ]_vars

\* A pass over two models in which the probe of the first failed has put the
\* second alone into the pool and returned 1.
C34_Witness ==
    /\ refresh.pc = "responded"
    /\ refresh.status = 200
    /\ Len(refresh.allModels) = 2
    /\ refresh.modelCount = 1
    /\ Len(refresh.discoveredModels) = 1
    /\ refresh.discoveredModels[1].id = refresh.allModels[2].id
    /\ PooledModels(serverModelPool) = refresh.discoveredModels


(***************************************************************************)
(* Properties of the concurrency slots                                     *)
(***************************************************************************)
\* The requests that have passed the rate-limit check and whose handler has
\* not returned: every other path of handleRequest returns before its first
\* suspension.
InFlight == { r \in Reqs : route[r] = "chat" /\ pc[r] \notin {"idle", "done"} }

\* C35: at every moment the requests that have passed the rate-limit check
\* and whose handler has not returned number at most the cap, timeouts and
\* shutdowns included.
C35_InFlightWithinCap == Cardinality(InFlight) <= maxConcurrentRequests

\* The requests of the table that are in flight number less than the cap.
C35_TrackedInFlightUnderCap ==
    Cardinality(InFlight \cap activeRequests) < maxConcurrentRequests


(***************************************************************************)
(* Properties of progress                                                  *)
(***************************************************************************)
\* Every handler has returned (or its request has not arrived).
AllReturned == \A r \in Reqs : pc[r] \in {"idle", "done"}

\* C36: every request that enters handleRequest is answered in the end; a
\* request whose handler has returned is answered and is not in the table
\* of active requests, whether it was served, rejected, failed or timed
\* out; and when every handler has returned the table is empty and
\* activeConnections is 0.
C36_AnsweredAndUntracked ==
    /\ \A r \in Reqs : (pc[r] # "idle") ~> res[r].ended
    /\ [](\A r \in Reqs : pc[r] = "done" => res[r].ended /\ r \notin activeRequests)
    /\ [](AllReturned => activeRequests = {} /\ activeConnections = 0)

\* A request was answered 408 by its timeout and one was rejected for the
\* rate limit; both handlers have returned and no slot is held.
C36_Witness ==
    /\ AllReturned
    /\ \E r \in Reqs : pc[r] = "done" /\ res[r].statusCode = HTTP_STATUS.REQUEST_TIMEOUT
    /\ \E r \in Reqs : pc[r] = "done" /\ route[r] = "limited"
    /\ activeRequests = {}
    /\ activeConnections = 0


(***************************************************************************)
(* Properties of health across discovery passes                            *)
(***************************************************************************)
\* The pool holds a model of this id that a health check found unhealthy.
MarkedUnhealthy(pool, id) ==
    \E i \in 1..Len(PooledModels(pool)) :
       PooledModels(pool)[i].id = id /\ ~PooledModels(pool)[i].isHealthy

\* The selector may return a model of this id: it is healthy in the primary
\* or the secondary tier.
Selectable(pool, id) ==
    \E i \in 1..Len(AvailableModels(pool)) :
       AvailableModels(pool)[i].id = id /\ AvailableModels(pool)[i].isHealthy

\* C37: a model that a health check has marked unhealthy stays out of the
\* selector's reach until a health check finds it healthy: no step of a
\* discovery pass makes it selectable, a pass that replaces the pool puts
\* it, if it is still enumerated, in the unhealthy tier, and a selection
\* does not return it.
C37_UnhealthyUntilFoundHealthy ==
    [][ \A id \in ModelIds :
          MarkedUnhealthy(modelPool, id) =>
             /\ pass' # pass => ~Selectable(modelPool', id)
             /\ pass' # pass /\ modelPool' # modelPool =>
                   \A i \in 1..Len(PooledModels(modelPool')) :
                      PooledModels(modelPool')[i].id = id =>
                         id \in TierIds(modelPool'.unhealthy)
             /\ selected' # selected /\ selected'.model # None =>
                   selected'.model[1].id # id ]_vars

\* A selection never returns a model that the pool marks unhealthy.
C37_SelectionSkipsMarked ==
    [][ \A id \in ModelIds :
          (MarkedUnhealthy(modelPool, id) /\ selected' # selected /\ selected'.model # None)
             => selected'.model[1].id # id ]_vars


(***************************************************************************)
(* Properties of overlapping discovery passes                              *)
(***************************************************************************)
\* Pass p completes and leaves no other pass under way.
CompletesLast(p) ==
    /\ pass[p].pc = "probing"
    /\ pass'[p].pc = "idle"
    /\ \A q \in Passes \ {p} : pass[q].pc = "idle"

\* C38: when passes have overlapped, the pool that the last of them to
\* complete leaves is the result of the pass that enumerated last: a pass
\* whose enumeration is not the newest does not replace the pool it finds.
C38_NewestEnumerationWins ==
    [][ \A p \in Passes :
          CompletesLast(p) => pass[p].newest \/ modelPool' = modelPool ]_vars

\* The pool is replaced only by a pass that completes, with the models that
\* pass discovered.
C38_LastToCompleteWins ==
    [][ \A p \in Passes :
          (pass[p].pc = "probing" /\ pass'[p].pc = "idle") =>
             /\ Len(PooledModels(modelPool')) <= Len(pass[p].allModels)
             /\ TierIds(PooledModels(modelPool')) \subseteq TierIds(pass[p].allModels) ]_vars


(***************************************************************************)
(* Properties of the model cache                                           *)
(***************************************************************************)
\* Pass p completes: its last probe settles and updateModelPool has run.
Completes(p) == pass[p].pc = "probing" /\ pass'[p].pc = "idle"

\* C39: after every completed discovery pass the models getAllModels
\* returns are exactly the models of the four tiers of the pool.
C39_CacheIsThePool ==
    [][ \A p \in Passes :
          Completes(p) => modelCache' = TierIds(PooledModels(modelPool')) ]_vars

\* Every pooled model is cached, at every moment.
C39_PoolWithinCache == TierIds(PooledModels(modelPool)) \subseteq modelCache


(***************************************************************************)
(* Properties of the token budget                                          *)
(***************************************************************************)
\* Every model the selector may draw on is too small for the estimate.
TooLargeForThePool(pool, estimatedTokens) ==
    \A i \in 1..Len(AvailableModels(pool)) :
       AvailableModels(pool)[i].maxInputTokens < estimatedTokens

\* C40: the model selected for a chat completion has maxInputTokens at
\* least the estimated prompt tokens of the request; a request whose
\* estimate exceeds every model the selector draws on ends at the selection
\* with no model; and no request is answered by the token-budget check that
\* follows the selection.
C40_SelectedModelFitsTheRequest ==
    \A r \in Reqs :
       /\ ctx[r].selectedModel # None =>
             ctx[r].selectedModel[1].maxInputTokens >= ctx[r].estimatedTokens
       /\ (/\ \E i \in 1..Len(stages[r]) : stages[r][i] = "ContextBuilt"
           /\ TooLargeForThePool(modelPool, ctx[r].estimatedTokens))
             => /\ ctx[r].selectedModel = None
                /\ pc[r] = "done"
                /\ \A i \in 1..Len(stages[r]) : stages[r][i] # "ModelSelected"
       /\ res[r].message.text # "Request exceeds model context limit"

\* A request of 5000 estimated tokens met a pool whose models take 4000:
\* it was answered 503 at the selection.
C40_Witness ==
    \E r \in Reqs :
       /\ ctx[r].estimatedTokens = 5000
       /\ AvailableModels(modelPool) # <<>>
       /\ TooLargeForThePool(modelPool, 5000)
       /\ pc[r] = "done"
       /\ ctx[r].selectedModel = None
       /\ res[r].statusCode = HTTP_STATUS.SERVICE_UNAVAILABLE
       /\ res[r].message.text = "No suitable model available for request requirements"

====
